---- MODULE Spec2Model ----
(***************************************************************************)
(* Verification model of cddl-codegen's semantic pass (src/parsing.rs):    *)
(* the translation of a parsed CDDL schema into the intermediate type      *)
(* catalog (IntermediateTypes).                                            *)
(***************************************************************************)
EXTENDS Integers, Sequences, FiniteSets, TLC

VARIABLES
    types,            \* the IntermediateTypes catalog mutated by the pass
    nrules,           \* number of top-level rules handed to parse_rule so far
    arg,              \* the input of the call being (or last) made
    ret,              \* the outcome of that call
    overflow_checks,  \* build profile: TRUE = arithmetic overflow panics, FALSE = it wraps
    calls             \* call by call: the calls of the pass still to be made, next one first

vars == <<types, nrules, arg, ret, overflow_checks, calls>>

(***************************************************************************)
(* Bounds of the exploration.                                              *)
(***************************************************************************)
\* how far around each primitive's bounds the integer literals are drawn
Slack == 1
\* number of rules of a schema
MaxRules == 2
\* tag numbers used in #6.n(...) are 1..MaxTag
MaxTag == 2
\* the operands n of `.size n` are 0..MaxSize
MaxSize == 8
\* the number of rules of a schema of plain references
MaxChain == 3

(***************************************************************************)
(* Option<T>                                                               *)
(***************************************************************************)
None == [some |-> FALSE]
Some(x) == [some |-> TRUE, v |-> x]

\* `let x = v; ...`: the value v bound once and used in F
With(v, F(_)) == F(v)

(***************************************************************************)
(* 64-bit machine integers (isize / usize / u64 / i64 on the 64-bit        *)
(* targets) as four 16-bit limbs, least significant first.  A word is a    *)
(* bit pattern: the unsigned and the signed reading share it, which is     *)
(* what the `as isize` casts of the source do.  Mathematical integers are  *)
(* five-limb two's complement numbers (80 bits), wide enough for every     *)
(* value below 2^79 in magnitude.                                          *)
(***************************************************************************)
Limb == 2^16

RECURSIVE AddLimbs(_, _, _)
AddLimbs(a, b, c) ==
    IF a = <<>> THEN <<>>
    ELSE LET s == Head(a) + Head(b) + c
         IN  <<s % Limb>> \o AddLimbs(Tail(a), Tail(b), s \div Limb)

NotLimbs(a) == [i \in 1..Len(a) |-> Limb - 1 - a[i]]
ZeroLimbs(n) == [i \in 1..n |-> 0]
AddL(a, b) == AddLimbs(a, b, 0)
SubL(a, b) == AddLimbs(a, NotLimbs(b), 1)
NegL(a) == AddLimbs(NotLimbs(a), ZeroLimbs(Len(a)), 1)
IsNegL(a) == a[Len(a)] >= 2^15
\* 2^k as a number of n limbs (0 when the bit does not fit: the wrapped value)
Pow2L(k, n) == [i \in 1..n |-> IF i = (k \div 16) + 1 THEN 2^(k % 16) ELSE 0]
LessL(a, b) ==
    IF IsNegL(a) # IsNegL(b) THEN IsNegL(a) ELSE IsNegL(SubL(a, b))

\* words
W(x) == <<x % Limb, (x \div Limb) % Limb, IF x < 0 THEN Limb - 1 ELSE 0, IF x < 0 THEN Limb - 1 ELSE 0>>
WMin == <<0, 0, 0, 2^15>>
WMax == <<Limb - 1, Limb - 1, Limb - 1, 2^15 - 1>>
WAllOnes == <<Limb - 1, Limb - 1, Limb - 1, Limb - 1>>

\* mathematical integers
SExt(w) == w \o <<IF IsNegL(w) THEN Limb - 1 ELSE 0>>
ZExt(w) == w \o <<0>>
M(x) == W(x) \o <<IF x < 0 THEN Limb - 1 ELSE 0>>
MPow2(k) == Pow2L(k, 5)
MAdd(a, b) == AddL(a, b)
MSub(a, b) == SubL(a, b)
MNeg(a) == NegL(a)
MLess(a, b) == LessL(a, b)
\* does the mathematical integer m fit an isize
FitsIsize(m) == SExt(SubSeq(m, 1, 4)) = m

(***************************************************************************)
(* Rust integer arithmetic on isize.  Each operation yields the wrapped    *)
(* result and whether it overflowed; with overflow checks compiled in the  *)
(* overflow is a panic, without them the wrapped value is used.            *)
(***************************************************************************)
IAdd(a, b) == [v |-> AddL(a, b), ovf |-> ~FitsIsize(MAdd(SExt(a), SExt(b)))]
ISub(a, b) == [v |-> SubL(a, b), ovf |-> ~FitsIsize(MSub(SExt(a), SExt(b)))]
INeg(a) == [v |-> NegL(a), ovf |-> a = WMin]
\* `x as isize` for x: usize/u64 -- a reinterpretation of the bits
AsIsize(x) == x
\* isize::pow(2, e) for an exponent given as [big, e]: big when e >= 64
IPow2(e) ==
    IF e.big THEN [v |-> W(0), ovf |-> TRUE]
    ELSE [v |-> Pow2L(e.e, 4), ovf |-> e.e >= 63]
\* `8 * (x as u32)` in u32 arithmetic: x as u32 keeps the low 32 bits; the
\* product overflows u32 when x as u32 >= 2^29
Mul8U32(x) ==
    LET ovf == x[2] >= 2^13
        hi  == x[2] % 2^13
    IN  [ovf |-> ovf,
         e   |-> [big |-> hi # 0 \/ x[1] >= 8, e |-> IF hi # 0 \/ x[1] >= 8 THEN 0 ELSE 8 * x[1]]]

(***************************************************************************)
(* Intermediate representation (crate::intermediate).                      *)
(***************************************************************************)
Primitives == {"U8", "I8", "U16", "I16", "U32", "I32", "U64", "I64", "Str", "Bytes"}
IntPrimitives == {"U8", "I8", "U16", "I16", "U32", "I32", "U64", "I64"}

Primitive(p) == [t |-> "Primitive", p |-> p]
Fixed(fv) == [t |-> "Fixed", fv |-> fv]
Rust(id) == [t |-> "Rust", ident |-> id]
Alias(id, ty) == [t |-> "Alias", ident |-> id, ty |-> ty]
Tagged(tag, ty) == [t |-> "Tagged", tag |-> tag, ty |-> ty]
Optional(ty) == [t |-> "Optional", ty |-> ty]
Array(ty) == [t |-> "Array", ty |-> ty]
Map(k, v) == [t |-> "Map", key |-> k, value |-> v]
CBORBytes(ty) == [t |-> "CBORBytes", ty |-> ty]

FixedUint(x) == [k |-> "Uint", n |-> x]
FixedInt(x) == [k |-> "Int", n |-> x]
FixedText(s) == [k |-> "Text", s |-> s]
FixedNull == [k |-> "Null"]

(***************************************************************************)
(* The exact inclusive range of each fixed-width integer primitive, as     *)
(* mathematical integers.                                                  *)
(***************************************************************************)
PrimBits(p) ==
    CASE p \in {"U8", "I8"} -> 8
      [] p \in {"U16", "I16"} -> 16
      [] p \in {"U32", "I32"} -> 32
      [] p \in {"U64", "I64"} -> 64
PrimSigned(p) == p \in {"I8", "I16", "I32", "I64"}
PrimMin(p) == IF PrimSigned(p) THEN MNeg(MPow2(PrimBits(p) - 1)) ELSE M(0)
PrimMax(p) ==
    IF PrimSigned(p) THEN MSub(MPow2(PrimBits(p) - 1), M(1))
    ELSE MSub(MPow2(PrimBits(p)), M(1))

(***************************************************************************)
(* range_to_primitive.  The constants are the `as isize` casts of the      *)
(* primitive types' MIN and MAX: the low four limbs of the exact bound.    *)
(***************************************************************************)
MinAsIsize(p) == AsIsize(SubSeq(PrimMin(p), 1, 4))
MaxAsIsize(p) == AsIsize(SubSeq(PrimMax(p), 1, 4))

PrimitiveOrder == <<"U8", "I8", "U16", "I16", "U32", "I32", "U64", "I64">>

\* a range_to_primitive that compares the upper bound only
range_to_primitive_high_only(low, high) ==
    IF low.some /\ high.some
       /\ \E i \in 1..Len(PrimitiveOrder) : high.v = MaxAsIsize(PrimitiveOrder[i])
    THEN LET i == CHOOSE j \in 1..Len(PrimitiveOrder) :
                     /\ high.v = MaxAsIsize(PrimitiveOrder[j])
                     /\ \A k \in 1..(j - 1) : high.v # MaxAsIsize(PrimitiveOrder[k])
         IN  Some(Primitive(PrimitiveOrder[i]))
    ELSE None

range_to_primitive(low, high) ==
    IF low.some /\ high.some
       /\ \E i \in 1..Len(PrimitiveOrder) :
             low.v = MinAsIsize(PrimitiveOrder[i]) /\ high.v = MaxAsIsize(PrimitiveOrder[i])
    THEN LET i == CHOOSE j \in 1..Len(PrimitiveOrder) :
                     /\ low.v = MinAsIsize(PrimitiveOrder[j])
                     /\ high.v = MaxAsIsize(PrimitiveOrder[j])
                     /\ \A k \in 1..(j - 1) :
                           ~(low.v = MinAsIsize(PrimitiveOrder[k])
                             /\ high.v = MaxAsIsize(PrimitiveOrder[k]))
         IN  Some(Primitive(PrimitiveOrder[i]))
    ELSE None

(***************************************************************************)
(* Results of the fallible functions: a panic aborts the pass and leaves   *)
(* the catalog as it was when the panic was raised.                        *)
(***************************************************************************)
Ok(tys, x) == [err |-> "", types |-> tys, v |-> x]
Err(tys, msg) == [err |-> msg, types |-> tys]
IsErr(r) == r.err # ""

(***************************************************************************)
(* Identifiers.  RustIdent::new converts a CDDL identifier to the target   *)
(* casing; AliasIdent::new keeps the reserved CDDL names as they are.      *)
(***************************************************************************)
ReservedIdents == {"uint", "int", "bytes", "bstr", "text", "tstr", "null", "nil"}

convert_to_camel_case(s) ==
    CASE s = "foo" -> "Foo"
      [] s = "bar" -> "Bar"
      [] s = "baz" -> "Baz"
      [] s = "qux" -> "Qux"
      [] s = "zed" -> "Zed"
      [] s = "pair" -> "Pair"
      [] s = "grp" -> "Grp"
      [] OTHER -> s

convert_to_snake_case(s) ==
    CASE s = "Foo" -> "foo"
      [] s = "Bar" -> "bar"
      [] OTHER -> s

RustIdent(cddl) == convert_to_camel_case(cddl)
AliasIdent(cddl) == IF cddl \in ReservedIdents THEN cddl ELSE RustIdent(cddl)
is_identifier_user_defined(s) == s \notin ReservedIdents

(***************************************************************************)
(* The catalog, IntermediateTypes.                                         *)
(***************************************************************************)
ReservedAliases ==
    [id \in ReservedIdents |->
        CASE id = "uint" -> Primitive("U64")
          [] id = "int" -> Primitive("I64")
          [] id \in {"bytes", "bstr"} -> Primitive("Bytes")
          [] id \in {"text", "tstr"} -> Primitive("Str")
          [] id \in {"null", "nil"} -> Fixed(FixedNull)]

NoEntries == [x \in {} |-> x]

NewTypes ==
    [type_aliases      |-> ReservedAliases,
     rust_structs      |-> NoEntries,
     generic_defs      |-> NoEntries,
     generic_instances |-> NoEntries,
     plain_groups      |-> NoEntries,
     log               |-> <<>>]

Put(f, k, x) == (k :> x) @@ f

register_type_alias(tys, name, ty) ==
    [tys EXCEPT !.type_aliases = Put(@, name, ty),
                !.log = Append(@, [kind |-> "alias", ident |-> name])]

register_rust_struct(tys, s) ==
    [tys EXCEPT !.rust_structs = Put(@, s.ident, s),
                !.log = Append(@, [kind |-> "struct", ident |-> s.ident])]

register_generic_def(tys, d) ==
    [tys EXCEPT !.generic_defs = Put(@, d.orig.ident, d),
                !.log = Append(@, [kind |-> "generic_def", ident |-> d.orig.ident])]

register_generic_instance(tys, i) ==
    [tys EXCEPT !.generic_instances = Put(@, i.instance_ident, i),
                !.log = Append(@, [kind |-> "generic_instance", ident |-> i.instance_ident])]

is_plain_group(tys, ident) == ident \in DOMAIN tys.plain_groups

mark_plain_group(tys, ident, group) ==
    [tys EXCEPT !.plain_groups = Put(@, ident, [group |-> group, rep |-> None])]

set_rep_if_plain_group(tys, ident, rep) ==
    IF is_plain_group(tys, ident)
    THEN [tys EXCEPT !.plain_groups[ident].rep = Some(rep)]
    ELSE tys

\* transitive alias chasing; None when the name is not registered
RECURSIVE apply_type_aliases(_, _)
apply_type_aliases(tys, alias_ident) ==
    IF alias_ident \in DOMAIN tys.type_aliases
    THEN LET ty == tys.type_aliases[alias_ident]
         IN  IF ty.t = "Rust" /\ ty.ident # alias_ident /\ ty.ident \in DOMAIN tys.type_aliases
             THEN apply_type_aliases(tys, ty.ident)
             ELSE Some(ty)
    ELSE None

\* resolves a CDDL name to Primitive/Fixed (reserved), Alias (registered) or Rust
new_type(tys, raw) ==
    LET resolved == apply_type_aliases(tys, AliasIdent(raw))
    IN  IF resolved.some
        THEN IF raw \in ReservedIdents THEN resolved.v
             ELSE Alias(AliasIdent(raw), resolved.v)
        ELSE Rust(RustIdent(raw))

\* RustStruct constructors
new_record(name, tag, record) ==
    [ident |-> name, tag |-> tag, variant |-> "Record", record |-> record]
new_table(name, tag, key, value) ==
    [ident |-> name, tag |-> tag, variant |-> "Table", domain |-> key, range |-> value]
new_wrapper(name, tag, ty, bounds) ==
    [ident |-> name, tag |-> tag, variant |-> "Wrapper", wrapped |-> ty, min_max |-> bounds]
new_type_choice(name, tag, variants) ==
    [ident |-> name, tag |-> tag, variant |-> "TypeChoice", variants |-> variants]
new_group_choice(name, tag, variants, rep) ==
    [ident |-> name, tag |-> tag, variant |-> "GroupChoice", variants |-> variants, rep |-> rep]

GenericDef(params, s) == [generic_params |-> params, orig |-> s]
GenericInstance(name, base, args) ==
    [instance_ident |-> name, generic_ident |-> base, generic_args |-> args]
EnumVariant(name, ty, embedded) ==
    [name |-> name, rust_type |-> ty, serialize_as_embedded_group |-> embedded]
RustField(name, ty, optional, key) ==
    [name |-> name, rust_type |-> ty, optional |-> optional, key |-> key]

\* decimal text of a literal (literals of the explored schemas used in names are small)
FmtWord(w) ==
    IF w[2] = 0 /\ w[3] = 0 /\ w[4] = 0 THEN ToString(w[1])
    ELSE IF w = WAllOnes THEN "-1" ELSE "big"

\* FixedValue::for_variant and RustType::for_variant: the variant-name form of a type
PrimitiveVariant(p) ==
    CASE p = "Str" -> "Text"
      [] p = "Bytes" -> "Bytes"
      [] OTHER -> p

fixed_for_variant(fv) ==
    CASE fv.k = "Null" -> "Null"
      [] fv.k = "Uint" -> "U" \o FmtWord(fv.n)
      [] fv.k = "Int" -> "I" \o FmtWord(fv.n)
      [] fv.k = "Text" -> convert_to_camel_case(fv.s)

RECURSIVE for_variant(_)
for_variant(ty) ==
    CASE ty.t = "Fixed" -> fixed_for_variant(ty.fv)
      [] ty.t = "Primitive" -> PrimitiveVariant(ty.p)
      [] ty.t = "Rust" -> ty.ident
      [] ty.t = "Alias" -> IF ty.ident \in ReservedIdents THEN for_variant(ty.ty) ELSE ty.ident
      [] ty.t = "Tagged" -> for_variant(ty.ty)
      [] ty.t = "Optional" -> "Opt" \o for_variant(ty.ty)
      [] ty.t = "Array" -> "Arr" \o for_variant(ty.ty)
      [] ty.t = "Map" -> "Map" \o for_variant(ty.key) \o "To" \o for_variant(ty.value)
      [] ty.t = "CBORBytes" -> "CBORBytes"

\* append_number_if_duplicate: the first use keeps the name, later uses get 2, 3, ...
append_number_if_duplicate(used, name) ==
    LET n == IF name \in DOMAIN used THEN used[name] + 1 ELSE 1
    IN  [used |-> Put(used, name, n),
         name |-> IF n > 1 THEN name \o ToString(n) ELSE name]

(***************************************************************************)
(* The CDDL abstract syntax (cddl::ast), as far as the pass reads it.      *)
(* Comments are kept as the list of directives the comment parser finds.   *)
(***************************************************************************)
Typename(id) == [k |-> "Typename", ident |-> id, generic_args |-> None]
TypenameArgs(id, args) == [k |-> "Typename", ident |-> id, generic_args |-> Some(args)]
UintValue(w) == [k |-> "UintValue", value |-> w]
IntValue(w) == [k |-> "IntValue", value |-> w]
TextValue(s) == [k |-> "TextValue", text |-> s]
FloatValue == [k |-> "FloatValue"]
ArrayT(g) == [k |-> "Array", group |-> g]
MapT(g) == [k |-> "Map", group |-> g]
TaggedData(tag, t) == [k |-> "TaggedData", tag |-> tag, t |-> t]
ParenthesizedType(pt) == [k |-> "ParenthesizedType", pt |-> pt]

RangeOp(incl) == [k |-> "RangeOp", is_inclusive |-> incl]
CtlOp(ctrl) == [k |-> "CtlOp", ctrl |-> ctrl]
Operator(op, t2) == [operator |-> op, type2 |-> t2]

Type1C(t2, op, comments) == [type2 |-> t2, operator |-> op, comments_after_type |-> comments]
Type1(t2) == Type1C(t2, None, None)
Type1Op(t2, op, operand) == Type1C(t2, Some(Operator(op, operand)), None)
TypeChoice(t1) == [type1 |-> t1]
Type(t1s) == [type_choices |-> [i \in 1..Len(t1s) |-> TypeChoice(t1s[i])]]

\* RuleMetadata of a comment list: the black-box comment parser
metadata_from_comments(comments) ==
    LET names == {i \in 1..Len(comments) : comments[i].d = "name"}
    IN  [name |-> IF names = {} THEN None
                  ELSE Some(comments[CHOOSE i \in names : \A j \in names : j <= i].v),
         is_newtype |-> \E i \in 1..Len(comments) : comments[i].d = "newtype"]
RuleMetadataFrom(opt_comments) ==
    IF opt_comments.some THEN metadata_from_comments(opt_comments.v)
    ELSE [name |-> None, is_newtype |-> FALSE]

\* The lowering functions call one another recursively; inside their bodies the
\* calls go through Call, which dispatches on the name of the function called.
RECURSIVE Call(_, _, _)
rec_rust_type_from_type1(tys, type1) == Call("rust_type_from_type1", tys, <<type1>>)
rec_rust_type_from_type2(tys, t2p) == Call("rust_type_from_type2", tys, <<t2p>>)
rec_rust_type(tys, t) == Call("rust_type", tys, <<t>>)
rec_parse_group(tys, group, name, rep, tag, generic_params) ==
    Call("parse_group", tys, <<group, name, rep, tag, generic_params>>)
RECURSIVE parse_type(_, _, _, _, _)

Type2AndParent(t2, parent) == [type2 |-> t2, parent |-> parent]

type2_is_null(t2) == t2.k = "Typename" /\ t2.ident \in {"null", "nil"}

IsNumberLiteral(t2) == t2.k \in {"UintValue", "IntValue"}
\* the literal as isize: `*value as isize` for a uint literal, `*value` for an int one
NumberLiteral(t2) == IF t2.k = "UintValue" THEN AsIsize(t2.value) ELSE t2.value

type2_to_number_literal(t2) ==
    IF IsNumberLiteral(t2) THEN [err |-> "", v |-> NumberLiteral(t2)]
    ELSE [err |-> "must be a number literal"]

\* an arithmetic result panics when it overflowed and overflow checks are compiled in
Panics(r) == r.ovf /\ overflow_checks
Exact(x) == [v |-> x, ovf |-> FALSE]

Range(lo, hi) == [c |-> "Range", min_max |-> <<lo, hi>>]
CBOR(ty) == [c |-> "CBOR", ty |-> ty]

\* isize::pow(2, 8 * x as u32)
SizePow(x) ==
    With(Mul8U32(x), LAMBDA m :
    With(IPow2(m.e), LAMBDA p :
        [v |-> p.v, ovf |-> m.ovf \/ p.ovf]))
\* isize::pow(2, 8 * x as u32) - 1
SizePowLess1(x) ==
    With(SizePow(x), LAMBDA p :
    With(ISub(p.v, W(1)), LAMBDA d :
        [v |-> d.v, ovf |-> p.ovf \/ d.ovf]))
\* 8 * x in isize
IMul8(x) ==
    With(IAdd(x, x), LAMBDA d1 :
    With(IAdd(d1.v, d1.v), LAMBDA d2 :
    With(IAdd(d2.v, d2.v), LAMBDA d3 :
        [v |-> d3.v, ovf |-> d1.ovf \/ d2.ovf \/ d3.ovf])))
\* x as u32, read as an exponent
AsU32Exp(x) == [big |-> x[2] # 0 \/ x[1] >= 64, e |-> IF x[2] # 0 \/ x[1] >= 64 THEN 0 ELSE x[1]]
\* -isize::pow(2, 8 * (h - 1) as u32)
IntSizeLow(h) ==
    With(ISub(h, W(1)), LAMBDA h1 :
    With(Mul8U32(h1.v), LAMBDA m :
    With(IPow2(m.e), LAMBDA p :
    With(INeg(p.v), LAMBDA n :
        [v |-> n.v, ovf |-> h1.ovf \/ m.ovf \/ p.ovf \/ n.ovf]))))
\* isize::pow(2, (8 * (h - 1)) as u32) - 1
IntSizeHigh(h) ==
    With(ISub(h, W(1)), LAMBDA h1 :
    With(IMul8(h1.v), LAMBDA m :
    With(IPow2(AsU32Exp(m.v)), LAMBDA p :
    With(ISub(p.v, W(1)), LAMBDA d :
        [v |-> d.v, ovf |-> h1.ovf \/ m.ovf \/ p.ovf \/ d.ovf]))))

\* the operand of `.size`: Range((None, Some(n))) or the parenthesized range
SizeBaseRange(operand) ==
    CASE IsNumberLiteral(operand) -> [err |-> "", v |-> <<None, Some(NumberLiteral(operand))>>]
      [] operand.k = "ParenthesizedType" ->
            IF Len(operand.pt.type_choices) # 1 THEN [err |-> "assertion failed: one type choice"]
            ELSE With(operand.pt.type_choices[1].type1, LAMBDA inner :
                 IF ~IsNumberLiteral(inner.type2)
                 THEN [err |-> "unsupported type in range control operator"]
                 ELSE With(Some(NumberLiteral(inner.type2)), LAMBDA min :
                      IF ~inner.operator.some THEN [err |-> "", v |-> <<min, min>>]
                      ELSE With(inner.operator.v, LAMBDA op :
                           IF op.operator.k = "CtlOp" THEN [err |-> "panic"]
                           ELSE IF ~IsNumberLiteral(op.type2)
                           THEN [err |-> "unsupported type in range control operator"]
                           ELSE With(IF op.operator.is_inclusive THEN Exact(NumberLiteral(op.type2))
                                     ELSE IAdd(NumberLiteral(op.type2), W(1)), LAMBDA end :
                                IF Panics(end) THEN [err |-> "attempt to add with overflow"]
                                ELSE [err |-> "", v |-> <<min, Some(end.v)>>]))))
      [] OTHER -> [err |-> "unsupported type in range control operator"]

\* a `.size` arm that passes the base range of a byte or text string through as it is
SizeControl_base_only(parent_t2, operand) ==
    With(SizeBaseRange(operand), LAMBDA base :
    IF base.err # "" THEN base
    ELSE With(base.v[1], LAMBDA l :
         With(base.v[2], LAMBDA h :
         IF parent_t2.k = "Typename" /\ parent_t2.ident = "uint"
         THEN With(IF l.some THEN SizePow(l.v) ELSE Exact(W(0)), LAMBDA lo :
              With(SizePowLess1(h.v), LAMBDA hi :
              IF Panics(lo) \/ Panics(hi) THEN [err |-> "attempt to multiply with overflow"]
              ELSE [err |-> "", v |-> Range(Some(lo.v), Some(hi.v))]))
         ELSE IF parent_t2.k = "Typename" /\ parent_t2.ident = "int"
         THEN IF l.some THEN [err |-> ".size range unsupported for signed int type"]
              ELSE With(IntSizeLow(h.v), LAMBDA lo :
                   With(IntSizeHigh(h.v), LAMBDA hi :
                   IF Panics(lo) \/ Panics(hi) THEN [err |-> "attempt to multiply with overflow"]
                   ELSE [err |-> "", v |-> Range(Some(lo.v), Some(hi.v))]))
         ELSE [err |-> "", v |-> Range(l, h)])))

\* the `.size` arm: the base range read according to the parent type
SizeControl(parent_t2, operand) ==
    With(SizeBaseRange(operand), LAMBDA base :
    IF base.err # "" THEN base
    ELSE With(base.v[1], LAMBDA l :
         With(base.v[2], LAMBDA h :
         IF parent_t2.k = "Typename" /\ parent_t2.ident = "uint"
         THEN With(IF l.some THEN SizePow(l.v) ELSE Exact(W(0)), LAMBDA lo :
              With(SizePowLess1(h.v), LAMBDA hi :
              IF Panics(lo) \/ Panics(hi) THEN [err |-> "attempt to multiply with overflow"]
              ELSE [err |-> "", v |-> Range(Some(lo.v), Some(hi.v))]))
         ELSE IF parent_t2.k = "Typename" /\ parent_t2.ident = "int"
         THEN IF l.some THEN [err |-> ".size range unsupported for signed int type"]
              ELSE With(IntSizeLow(h.v), LAMBDA lo :
                   With(IntSizeHigh(h.v), LAMBDA hi :
                   IF Panics(lo) \/ Panics(hi) THEN [err |-> "attempt to multiply with overflow"]
                   ELSE [err |-> "", v |-> Range(Some(lo.v), Some(hi.v))]))
         ELSE IF ~l.some THEN [err |-> "", v |-> Range(h, h)]
              ELSE [err |-> "", v |-> Range(l, h)])))

\* the comparison arms .eq .ne .le .lt .ge .gt
CompareControl(ctrl, lower_bound, operand) ==
    With(type2_to_number_literal(operand), LAMBDA lit :
    IF lit.err # "" THEN lit
    ELSE With(lit.v, LAMBDA n :
         With(IAdd(n, W(1)), LAMBDA succ :
         With(ISub(n, W(1)), LAMBDA pred :
         CASE ctrl = ".eq" -> [err |-> "", v |-> Range(Some(n), Some(n))]
           [] ctrl = ".ne" ->
                IF Panics(succ) THEN [err |-> "attempt to add with overflow"]
                ELSE IF Panics(pred) THEN [err |-> "attempt to subtract with overflow"]
                ELSE [err |-> "", v |-> Range(Some(succ.v), Some(pred.v))]
           [] ctrl = ".le" -> [err |-> "", v |-> Range(lower_bound, Some(n))]
           [] ctrl = ".lt" ->
                IF Panics(pred) THEN [err |-> "attempt to subtract with overflow"]
                ELSE [err |-> "", v |-> Range(lower_bound, Some(pred.v))]
           [] ctrl = ".ge" -> [err |-> "", v |-> Range(Some(n), None)]
           [] ctrl = ".gt" ->
                IF Panics(succ) THEN [err |-> "attempt to add with overflow"]
                ELSE [err |-> "", v |-> Range(Some(succ.v), None)]))))

\* range syntax a..b / a...b
RangeControl(parent_t2, op) ==
    IF ~IsNumberLiteral(parent_t2) THEN [err |-> "Number expected as range start"]
    ELSE IF ~IsNumberLiteral(op.type2) THEN [err |-> "unsupported type in range control operator"]
    ELSE With(NumberLiteral(parent_t2), LAMBDA range_start :
         With(NumberLiteral(op.type2), LAMBDA range_end :
         With(IF op.operator.is_inclusive THEN Exact(range_end) ELSE IAdd(range_end, W(1)), LAMBDA end :
         IF Panics(end) THEN [err |-> "attempt to add with overflow"]
         ELSE [err |-> "", v |-> Range(Some(range_start), Some(end.v))])))

parse_control_operator(tys, parent, op) ==
    LET lower_bound == IF parent.type2.k = "Typename" /\ parent.type2.ident = "uint"
                       THEN Some(W(0)) ELSE None
        pure(r) == IF r.err # "" THEN Err(tys, r.err) ELSE Ok(tys, r.v)
    IN  IF op.operator.k = "RangeOp" THEN pure(RangeControl(parent.type2, op))
        ELSE CASE op.operator.ctrl \in {".default", ".cborseq", ".within", ".and"} ->
                      Err(tys, "control operator not supported")
               [] op.operator.ctrl = ".cbor" ->
                      With(rec_rust_type_from_type2(tys, Type2AndParent(op.type2, parent.parent)),
                           LAMBDA r : IF IsErr(r) THEN r ELSE Ok(r.types, CBOR(r.v)))
               [] op.operator.ctrl \in {".eq", ".ne", ".le", ".lt", ".ge", ".gt"} ->
                      pure(CompareControl(op.operator.ctrl, lower_bound, op.type2))
               [] op.operator.ctrl = ".size" -> pure(SizeControl(parent.type2, op.type2))
               [] OTHER -> Err(tys, "Unknown (not seen in RFC-8610) range control operator")

(***************************************************************************)
(* Group classification and the type expression lowerer.                   *)
(***************************************************************************)
\* Some(<<key type1, value type>>) for a table-shaped group choice
table_domain_range(group_choice, rep) ==
    IF rep = "Map" /\ Len(group_choice.group_entries) = 1
    THEN LET entry == group_choice.group_entries[1][1]
         IN  IF entry.k = "ValueMemberKey"
             THEN IF entry.ge.member_key.some /\ entry.ge.member_key.v.k = "Type1"
                  THEN [err |-> "", v |-> Some(<<entry.ge.member_key.v.t1, entry.ge.entry_type>>)]
                  ELSE IF entry.ge.member_key.some /\ entry.ge.member_key.v.k = "Value"
                  THEN [err |-> "", v |-> None]
                  ELSE [err |-> "unsupported table map key (1)"]
             ELSE [err |-> "unsupported table map key (2)"]
    ELSE [err |-> "", v |-> None]

VariantCustom(s) == [k |-> "Custom", name |-> s]
VariantRust(id) == [k |-> "RustStruct", name |-> id]

\* the lowering of a list of Type1 in order, threading the catalog
RECURSIVE LowerAll(_, _)
LowerAll(tys, t1s) ==
    IF t1s = <<>> THEN Ok(tys, <<>>)
    ELSE With(rec_rust_type_from_type1(tys, Head(t1s)), LAMBDA r :
         IF IsErr(r) THEN r
         ELSE With(LowerAll(r.types, Tail(t1s)), LAMBDA rest :
              IF IsErr(rest) THEN rest ELSE Ok(rest.types, <<r.v>> \o rest.v)))

RECURSIVE JoinNames(_, _)
JoinNames(names, sep) ==
    IF names = <<>> THEN ""
    ELSE IF Len(names) = 1 THEN names[1]
    ELSE names[1] \o sep \o JoinNames(Tail(names), sep)

\* variant names deduplicated in order
RECURSIVE DedupVariants(_, _)
DedupVariants(used, tys_) ==
    IF tys_ = <<>> THEN <<>>
    ELSE With(append_number_if_duplicate(used, for_variant(Head(tys_))), LAMBDA d :
         <<EnumVariant(VariantCustom(d.name), Head(tys_), FALSE)>>
             \o DedupVariants(d.used, Tail(tys_)))

create_variants_from_type_choices(tys, type_choices) ==
    With(LowerAll(tys, [i \in 1..Len(type_choices) |-> type_choices[i].type1]), LAMBDA r :
         IF IsErr(r) THEN r ELSE Ok(r.types, DedupVariants(NoEntries, r.v)))

rust_type_from_type1(tys, type1) ==
    IF ~type1.operator.some
    THEN rec_rust_type_from_type2(tys, Type2AndParent(type1.type2, type1))
    ELSE With(parse_control_operator(tys, Type2AndParent(type1.type2, type1), type1.operator.v),
         LAMBDA control :
         IF IsErr(control) THEN control
         ELSE IF control.v.c = "CBOR" THEN Ok(control.types, CBORBytes(control.v.ty))
         ELSE IF type1.type2.k = "Typename" /\ type1.type2.ident \in {"uint", "int"}
         THEN With(range_to_primitive(control.v.min_max[1], control.v.min_max[2]), LAMBDA t :
                   IF t.some THEN Ok(control.types, t.v)
                   ELSE Err(control.types, "unsupported range"))
         ELSE rec_rust_type_from_type2(control.types, Type2AndParent(type1.type2, type1)))

rust_type_from_type2(tys, t2p) ==
    With(t2p.type2, LAMBDA t2 :
    CASE t2.k = "UintValue" -> Ok(tys, Fixed(FixedUint(t2.value)))
      [] t2.k = "IntValue" -> Ok(tys, Fixed(FixedInt(t2.value)))
      [] t2.k = "TextValue" -> Ok(tys, Fixed(FixedText(t2.text)))
      [] t2.k = "Typename" ->
            IF t2.generic_args.some
            THEN With(LowerAll(tys, t2.generic_args.v), LAMBDA args :
                 IF IsErr(args) THEN args
                 ELSE With(t2.ident \o "_" \o JoinNames([i \in 1..Len(args.v) |->
                                                            for_variant(args.v[i])], "_"),
                      LAMBDA instance_cddl_ident :
                      With(register_generic_instance(args.types,
                               GenericInstance(RustIdent(instance_cddl_ident),
                                               RustIdent(t2.ident), args.v)),
                      LAMBDA registered :
                      Ok(registered, new_type(registered, instance_cddl_ident)))))
            ELSE Ok(tys, new_type(tys, t2.ident))
      [] t2.k = "Array" ->
            IF Len(t2.group.group_choices) # 1
            THEN Err(tys, "group choices in array type not supported")
            ELSE With(t2.group.group_choices[1], LAMBDA choice :
                 IF Len(choice.group_entries) = 1
                 THEN With(choice.group_entries[1][1], LAMBDA entry :
                      With(CASE entry.k = "ValueMemberKey" -> rec_rust_type(tys, entry.ge.entry_type)
                             [] entry.k = "TypeGroupname" -> Ok(tys, new_type(tys, entry.ge.name))
                             [] OTHER -> Err(tys, "UNSUPPORTED_ARRAY_ELEMENT"),
                      LAMBDA element_type :
                      IF IsErr(element_type) THEN element_type
                      ELSE Ok(element_type.types, Array(element_type.v))))
                 ELSE With(RuleMetadataFrom(t2p.parent.comments_after_type), LAMBDA rule_metadata :
                      IF ~rule_metadata.name.some
                      THEN Err(tys, "Anonymous groups not allowed")
                      ELSE With(rec_parse_group(tys, t2.group, RustIdent(rule_metadata.name.v),
                                                "Array", None, None),
                           LAMBDA g :
                           IF IsErr(g) THEN g
                           ELSE Ok(g.types, new_type(g.types, rule_metadata.name.v)))))
      [] t2.k = "Map" ->
            IF Len(t2.group.group_choices) # 1
            THEN Err(tys, "group choices in inlined map types not allowed")
            ELSE With(table_domain_range(t2.group.group_choices[1], "Map"), LAMBDA table_types :
                 IF table_types.err # "" THEN Err(tys, table_types.err)
                 ELSE IF ~table_types.v.some THEN Err(tys, "TODO: non-table types as types")
                 ELSE With(rec_rust_type_from_type1(tys, table_types.v.v[1]), LAMBDA key_type :
                      IF IsErr(key_type) THEN key_type
                      ELSE With(rec_rust_type(key_type.types, table_types.v.v[2]), LAMBDA value_type :
                           IF IsErr(value_type) THEN value_type
                           ELSE Ok(value_type.types, Map(key_type.v, value_type.v)))))
      [] t2.k = "TaggedData" ->
            IF ~t2.tag.some THEN Err(tys, "tagged data without tag not supported")
            ELSE With(rec_rust_type(tys, t2.t), LAMBDA inner :
                 IF IsErr(inner) THEN inner
                 ELSE Ok(inner.types, Tagged(t2.tag.v, inner.v)))
      [] OTHER -> Err(tys, "Ignoring Type2"))

rust_type(tys, t) ==
    LET n == Len(t.type_choices)
        a == t.type_choices[1].type1
        b == t.type_choices[2].type1
    IN  IF n = 1 THEN rec_rust_type_from_type1(tys, a)
        ELSE IF n = 2 /\ (type2_is_null(a.type2) \/ type2_is_null(b.type2))
        THEN With(rec_rust_type_from_type1(tys, IF type2_is_null(a.type2) THEN b ELSE a), LAMBDA r :
                  IF IsErr(r) THEN r ELSE Ok(r.types, Optional(r.v)))
        ELSE With(create_variants_from_type_choices(tys, t.type_choices), LAMBDA variants :
             IF IsErr(variants) THEN variants
             ELSE With(JoinNames([i \in 1..Len(variants.v) |->
                                     for_variant(variants.v[i].rust_type)], "Or"),
                  LAMBDA combined_name :
                  With(register_rust_struct(variants.types,
                           new_type_choice(RustIdent(combined_name), None, variants.v)),
                  LAMBDA registered :
                  Ok(registered, new_type(registered, combined_name)))))

(***************************************************************************)
(* Group entries, field names and records.                                 *)
(***************************************************************************)
Occur(o) == Some([occur |-> o])
MemberKeyValue(val) == [k |-> "Value", value |-> val]
MemberKeyBareword(id) == [k |-> "Bareword", ident |-> id]
MemberKeyType1(t1) == [k |-> "Type1", t1 |-> t1]
MemberKeyNonMemberKey == [k |-> "NonMemberKey"]
TokenUINT(w) == [k |-> "UINT", n |-> w]
TokenINT(w) == [k |-> "INT", n |-> w]
TokenTEXT(s) == [k |-> "TEXT", s |-> s]
TokenFLOAT == [k |-> "FLOAT"]

ValueMemberKey(occur, member_key, entry_type, comments) ==
    [k |-> "ValueMemberKey",
     ge |-> [occur |-> occur, member_key |-> member_key, entry_type |-> entry_type],
     trailing_comments |-> comments]
TypeGroupname(occur, name, comments) ==
    [k |-> "TypeGroupname",
     ge |-> [occur |-> occur, name |-> name, generic_args |-> None],
     trailing_comments |-> comments]
InlineGroup == [k |-> "InlineGroup"]
OptionalComma(comments) == [trailing_comments |-> comments]
GroupChoiceC(entries, comments) ==
    [group_entries |-> [i \in 1..Len(entries) |-> <<entries[i], OptionalComma(None)>>],
     comments_before_grpchoice |-> comments]
GroupChoice(entries) == GroupChoiceC(entries, None)
Group(choices) == [group_choices |-> choices]

FmtToken(val) ==
    CASE val.k \in {"UINT", "INT"} -> FmtWord(val.n)
      [] val.k = "TEXT" -> val.s
      [] OTHER -> "float"

\* a type_to_field_name that derives a name from a single type name only
type_to_field_name_typename_only(t) ==
    IF Len(t.type_choices) = 1 /\ t.type_choices[1].type1.type2.k = "Typename"
    THEN Some(t.type_choices[1].type1.type2.ident)
    ELSE None

RECURSIVE type_to_field_name(_)
type_to_field_name(t) ==
    LET type2_to_field_name(t2) ==
            CASE t2.k = "Typename" -> Some(t2.ident)
              [] t2.k = "TextValue" -> Some(t2.text)
              [] t2.k = "Array" ->
                    IF Len(t2.group.group_choices) = 1
                       /\ Len(t2.group.group_choices[1].group_entries) = 1
                    THEN LET e == t2.group.group_choices[1].group_entries[1][1]
                         IN  CASE e.k = "ValueMemberKey" ->
                                     LET inner == type_to_field_name(e.ge.entry_type)
                                     IN  IF inner.some THEN Some(inner.v \o "s") ELSE None
                               [] e.k = "TypeGroupname" -> Some(e.ge.name \o "s")
                               [] OTHER -> None
                    ELSE None
              [] OTHER -> None
        n == Len(t.type_choices)
        a == t.type_choices[1].type1.type2
        b == t.type_choices[2].type1.type2
    IN  IF n = 1 THEN type2_to_field_name(a)
        ELSE IF n = 2 /\ type2_is_null(a) THEN type2_to_field_name(b)
        ELSE IF n = 2 /\ type2_is_null(b) THEN type2_to_field_name(a)
        ELSE None

combine_comments(a, b) ==
    IF a.some /\ b.some THEN Some(a.v \o b.v) ELSE IF a.some THEN a ELSE b

CommentName(trailing, comma, default) ==
    With(combine_comments(trailing, comma.trailing_comments), LAMBDA combined :
    With(metadata_from_comments(IF combined.some THEN combined.v ELSE <<>>), LAMBDA meta :
         IF meta.name.some THEN meta.name.v ELSE default))

\* the field name of an entry with the updated duplicate counters
group_entry_to_field_name(entry, index, already_generated, optional_comma) ==
    With(CASE entry.k = "ValueMemberKey" ->
                 IF entry.ge.member_key.some
                 THEN With(entry.ge.member_key.v, LAMBDA mk :
                      CASE mk.k = "Value" ->
                              [err |-> "", v |-> CommentName(entry.trailing_comments, optional_comma,
                                                             "key_" \o FmtToken(mk.value))]
                        [] mk.k = "Bareword" -> [err |-> "", v |-> mk.ident]
                        [] mk.k = "Type1" ->
                              IF mk.t1.type2.k = "UintValue"
                              THEN [err |-> "", v |-> "key_" \o FmtWord(mk.t1.type2.value)]
                              ELSE [err |-> "Encountered Type1 member key in multi-field map - not supported"]
                        [] OTHER -> [err |-> "Please open a github issue with repro steps"])
                 ELSE With(type_to_field_name(entry.ge.entry_type), LAMBDA derived :
                      IF derived.some THEN [err |-> "", v |-> derived.v]
                      ELSE [err |-> "", v |-> CommentName(entry.trailing_comments, optional_comma,
                                                          "index_" \o ToString(index))])
           [] entry.k = "TypeGroupname" ->
                 IF ~is_identifier_user_defined(entry.ge.name)
                 THEN [err |-> "", v |-> CommentName(entry.trailing_comments, optional_comma,
                                                     "index_" \o ToString(index))]
                 ELSE [err |-> "", v |-> entry.ge.name]
           [] OTHER -> [err |-> "not implemented (define a new struct for this!)"],
    LAMBDA raw :
    IF raw.err # "" THEN raw
    ELSE With(append_number_if_duplicate(already_generated, convert_to_snake_case(raw.v)), LAMBDA d :
              [err |-> "", v |-> d.name, used |-> d.used]))

group_entry_to_raw_field_name(entry) ==
    CASE entry.k = "ValueMemberKey" ->
            IF entry.ge.member_key.some /\ entry.ge.member_key.v.k = "Bareword"
            THEN [err |-> "", v |-> Some(entry.ge.member_key.v.ident)]
            ELSE [err |-> "", v |-> None]
      [] entry.k = "TypeGroupname" ->
            IF ~is_identifier_user_defined(entry.ge.name) THEN [err |-> "", v |-> None]
            ELSE [err |-> "", v |-> Some(entry.ge.name)]
      [] OTHER -> [err |-> "not implemented (define a new struct for this!)"]

group_entry_optional(entry) ==
    IF entry.k = "InlineGroup" THEN [err |-> "inline group entries are not implemented"]
    ELSE [err |-> "", v |-> entry.ge.occur.some /\ entry.ge.occur.v.occur = "Optional"]

group_entry_to_type(tys, entry) ==
    CASE entry.k = "ValueMemberKey" -> rec_rust_type(tys, entry.ge.entry_type)
      [] entry.k = "TypeGroupname" ->
            IF entry.ge.generic_args.some THEN Err(tys, "not yet implemented")
            ELSE Ok(tys, new_type(tys, entry.ge.name))
      [] OTHER -> Err(tys, "inline group entries are not implemented")

group_entry_to_key(entry) ==
    IF entry.k = "ValueMemberKey"
    THEN IF ~entry.ge.member_key.some THEN [err |-> "", v |-> None]
         ELSE LET mk == entry.ge.member_key.v
              IN  CASE mk.k = "Value" ->
                          CASE mk.value.k = "UINT" -> [err |-> "", v |-> Some(FixedUint(mk.value.n))]
                            [] mk.value.k = "INT" -> [err |-> "", v |-> Some(FixedInt(mk.value.n))]
                            [] mk.value.k = "TEXT" -> [err |-> "", v |-> Some(FixedText(mk.value.s))]
                            [] OTHER -> [err |-> "unsupported map identifier(1)"]
                    [] mk.k = "Bareword" -> [err |-> "", v |-> Some(FixedText(mk.ident))]
                    [] mk.k = "Type1" ->
                          CASE mk.t1.type2.k = "UintValue" ->
                                  [err |-> "", v |-> Some(FixedUint(mk.t1.type2.value))]
                            [] mk.t1.type2.k = "IntValue" ->
                                  [err |-> "", v |-> Some(FixedInt(mk.t1.type2.value))]
                            [] mk.t1.type2.k = "TextValue" ->
                                  [err |-> "", v |-> Some(FixedText(mk.t1.type2.text))]
                            [] OTHER -> [err |-> "unsupported map identifier(2)"]
                    [] OTHER -> [err |-> "Please open a github issue with repro steps"]
    ELSE [err |-> "", v |-> None]

\* one field of a record: name, type, optionality and key, in the order the code computes them
RecordField(tys, rep, entry, index, generated_fields, optional_comma) ==
    With(group_entry_to_field_name(entry, index, generated_fields, optional_comma), LAMBDA field_name :
    IF field_name.err # "" THEN Err(tys, field_name.err)
    ELSE With(group_entry_to_type(tys, entry), LAMBDA field_type :
         IF IsErr(field_type) THEN field_type
         ELSE With(IF field_type.v.t = "Rust"
                   THEN set_rep_if_plain_group(field_type.types, field_type.v.ident, rep)
                   ELSE field_type.types, LAMBDA tys2 :
              With(group_entry_optional(entry), LAMBDA optional_field :
              With(group_entry_to_key(entry), LAMBDA key :
              IF optional_field.err # "" THEN Err(tys2, optional_field.err)
              ELSE IF rep = "Map" /\ key.err # "" THEN Err(tys2, key.err)
              ELSE IF rep = "Map" /\ ~key.v.some THEN Err(tys2, "map fields need keys")
              ELSE [err |-> "", types |-> tys2, used |-> field_name.used,
                    v |-> RustField(field_name.v, field_type.v, optional_field.v,
                                    IF rep = "Map" THEN Some(key.v.v) ELSE None)])))))

\* a RecordFields that hands every entry the counters it was called with
RECURSIVE RecordFields_counters_dropped(_, _, _, _, _)
RecordFields_counters_dropped(tys, rep, entries, index, generated_fields) ==
    IF index >= Len(entries) THEN Ok(tys, <<>>)
    ELSE With(RecordField(tys, rep, entries[index + 1][1], index, generated_fields,
                          entries[index + 1][2]), LAMBDA f :
         IF IsErr(f) THEN f
         ELSE With(RecordFields_counters_dropped(f.types, rep, entries, index + 1, generated_fields),
              LAMBDA rest :
              IF IsErr(rest) THEN rest ELSE Ok(rest.types, <<f.v>> \o rest.v)))

RECURSIVE RecordFields(_, _, _, _, _)
RecordFields(tys, rep, entries, index, generated_fields) ==
    IF index >= Len(entries) THEN Ok(tys, <<>>)
    ELSE With(RecordField(tys, rep, entries[index + 1][1], index, generated_fields,
                          entries[index + 1][2]), LAMBDA f :
         IF IsErr(f) THEN f
         ELSE With(RecordFields(f.types, rep, entries, index + 1, f.used), LAMBDA rest :
              IF IsErr(rest) THEN rest ELSE Ok(rest.types, <<f.v>> \o rest.v)))

parse_record_from_group_choice(tys, rep, group_choice) ==
    With(RecordFields(tys, rep, group_choice.group_entries, 0, NoEntries), LAMBDA fields :
         IF IsErr(fields) THEN fields
         ELSE Ok(fields.types, [rep |-> rep, fields |-> fields.v]))

parse_group_choice(tys, group_choice, name, rep, tag, generic_params) ==
    With(table_domain_range(group_choice, rep), LAMBDA table_types :
    IF table_types.err # "" THEN Err(tys, table_types.err)
    ELSE With(IF table_types.v.some
              THEN With(rec_rust_type_from_type1(tys, table_types.v.v[1]), LAMBDA key_type :
                   IF IsErr(key_type) THEN key_type
                   ELSE With(rec_rust_type(key_type.types, table_types.v.v[2]), LAMBDA value_type :
                        IF IsErr(value_type) THEN value_type
                        ELSE Ok(value_type.types, new_table(name, tag, key_type.v, value_type.v))))
              ELSE With(parse_record_from_group_choice(tys, rep, group_choice), LAMBDA record :
                   IF IsErr(record) THEN record
                   ELSE Ok(record.types, new_record(name, tag, record.v))),
         LAMBDA rust_struct :
         IF IsErr(rust_struct) THEN rust_struct
         ELSE IF generic_params.some
         THEN Ok(register_generic_def(rust_struct.types, GenericDef(generic_params.v, rust_struct.v)),
                 TRUE)
         ELSE Ok(register_rust_struct(rust_struct.types, rust_struct.v), TRUE)))

\* one variant of a group with several group choices
GroupVariant(tys, group_choice, i, name, rep, variants_names_used) ==
    IF Len(group_choice.group_entries) = 1
    THEN With(group_choice.group_entries[1][1], LAMBDA group_entry :
         With(group_entry_to_type(tys, group_entry), LAMBDA ty :
         IF IsErr(ty) THEN ty
         ELSE With(IF ty.v.t = "Rust" THEN set_rep_if_plain_group(ty.types, ty.v.ident, rep)
                   ELSE ty.types, LAMBDA tys2 :
              With(ty.v.t = "Rust" /\ is_plain_group(tys2, ty.v.ident), LAMBDA serialize_as_embedded :
              With(group_entry_to_raw_field_name(group_entry), LAMBDA raw :
              IF raw.err # "" THEN Err(tys2, raw.err)
              ELSE With(IF raw.v.some THEN [name |-> raw.v.v, used |-> variants_names_used]
                        ELSE append_number_if_duplicate(variants_names_used, for_variant(ty.v)),
                   LAMBDA d :
                   [err |-> "", types |-> tys2, used |-> d.used,
                    v |-> EnumVariant(VariantCustom(convert_to_camel_case(d.name)),
                                      ty.v, serialize_as_embedded)]))))))
    ELSE With(RuleMetadataFrom(group_choice.comments_before_grpchoice), LAMBDA rule_metadata :
         With(RustIdent(IF rule_metadata.name.some THEN rule_metadata.name.v
                        ELSE name \o ToString(i)), LAMBDA variant_name :
         With(parse_group_choice(mark_plain_group(tys, variant_name, None), group_choice,
                                 variant_name, rep, None, None), LAMBDA parsed :
         IF IsErr(parsed) THEN parsed
         ELSE [err |-> "", types |-> parsed.types, used |-> variants_names_used,
               v |-> EnumVariant(VariantRust(variant_name), Rust(variant_name), TRUE)])))

RECURSIVE GroupVariants(_, _, _, _, _, _)
GroupVariants(tys, choices, i, name, rep, variants_names_used) ==
    IF i >= Len(choices) THEN Ok(tys, <<>>)
    ELSE With(GroupVariant(tys, choices[i + 1], i, name, rep, variants_names_used), LAMBDA x :
         IF IsErr(x) THEN x
         ELSE With(GroupVariants(x.types, choices, i + 1, name, rep, x.used), LAMBDA rest :
              IF IsErr(rest) THEN rest ELSE Ok(rest.types, <<x.v>> \o rest.v)))

\* a parse_group that builds the sum type of a generic rule as well
parse_group_generic_choices(tys, group, name, rep, tag, generic_params) ==
    IF Len(group.group_choices) = 1
    THEN parse_group_choice(tys, group.group_choices[1], name, rep, tag, generic_params)
    ELSE IF is_plain_group(tys, name) THEN Err(tys, "assertion failed: !types.is_plain_group(name)")
    ELSE With(GroupVariants(tys, group.group_choices, 0, name, rep, NoEntries), LAMBDA variants :
         IF IsErr(variants) THEN variants
         ELSE Ok(register_rust_struct(variants.types,
                                      new_group_choice(name, tag, variants.v, rep)), TRUE))

parse_group(tys, group, name, rep, tag, generic_params) ==
    IF Len(group.group_choices) = 1
    THEN parse_group_choice(tys, group.group_choices[1], name, rep, tag, generic_params)
    ELSE IF generic_params.some THEN Err(tys, "generic group choices not supported")
    ELSE IF is_plain_group(tys, name) THEN Err(tys, "assertion failed: !types.is_plain_group(name)")
    ELSE With(GroupVariants(tys, group.group_choices, 0, name, rep, NoEntries), LAMBDA variants :
         IF IsErr(variants) THEN variants
         ELSE Ok(register_rust_struct(variants.types,
                                      new_group_choice(name, tag, variants.v, rep)), TRUE))

(***************************************************************************)
(* The rule dispatcher.                                                    *)
(***************************************************************************)
\* the dispatch of a recursive call
Call(fn, tys, a) ==
    CASE fn = "rust_type_from_type1" -> rust_type_from_type1(tys, a[1])
      [] fn = "rust_type_from_type2" -> rust_type_from_type2(tys, a[1])
      [] fn = "rust_type" -> rust_type(tys, a[1])
      [] fn = "parse_group" -> parse_group(tys, a[1], a[2], a[3], a[4], a[5])

\* a parse_type_choices that recognises null in the second alternative only
parse_type_choices_null_last(tys, name, type_choices, tag, generic_params) ==
    With(IF Len(type_choices) = 2 /\ type2_is_null(type_choices[2].type1.type2)
         THEN Some(type_choices[1].type1) ELSE None,
    LAMBDA optional_inner_type :
    IF optional_inner_type.some
    THEN IF generic_params.some THEN Err(tys, "not yet implemented: support foo<T> = T / null")
         ELSE With(rec_rust_type_from_type1(tys, optional_inner_type.v), LAMBDA inner_rust_type :
              IF IsErr(inner_rust_type) THEN inner_rust_type
              ELSE Ok(register_type_alias(inner_rust_type.types, name,
                          IF tag.some THEN Tagged(tag.v, Optional(inner_rust_type.v))
                          ELSE Optional(inner_rust_type.v)), TRUE))
    ELSE With(create_variants_from_type_choices(tys, type_choices), LAMBDA variants :
         IF IsErr(variants) THEN variants
         ELSE IF generic_params.some
         THEN Ok(register_generic_def(variants.types,
                     GenericDef(generic_params.v, new_type_choice(name, tag, variants.v))), TRUE)
         ELSE Ok(register_rust_struct(variants.types, new_type_choice(name, tag, variants.v)), TRUE)))

parse_type_choices(tys, name, type_choices, tag, generic_params) ==
    With(IF Len(type_choices) = 2
         THEN IF type2_is_null(type_choices[1].type1.type2) THEN Some(type_choices[2].type1)
              ELSE IF type2_is_null(type_choices[2].type1.type2) THEN Some(type_choices[1].type1)
              ELSE None
         ELSE None,
    LAMBDA optional_inner_type :
    IF optional_inner_type.some
    THEN IF generic_params.some THEN Err(tys, "not yet implemented: support foo<T> = T / null")
         ELSE With(rec_rust_type_from_type1(tys, optional_inner_type.v), LAMBDA inner_rust_type :
              IF IsErr(inner_rust_type) THEN inner_rust_type
              ELSE Ok(register_type_alias(inner_rust_type.types, name,
                          IF tag.some THEN Tagged(tag.v, Optional(inner_rust_type.v))
                          ELSE Optional(inner_rust_type.v)), TRUE))
    ELSE With(create_variants_from_type_choices(tys, type_choices), LAMBDA variants :
         IF IsErr(variants) THEN variants
         ELSE IF generic_params.some
         THEN Ok(register_generic_def(variants.types,
                     GenericDef(generic_params.v, new_type_choice(name, tag, variants.v))), TRUE)
         ELSE Ok(register_rust_struct(variants.types, new_type_choice(name, tag, variants.v)), TRUE)))

\* field_type() of parse_type: the primitive a controlled typename stands for
ControlFieldType(ident) ==
    CASE ident \in {"tstr", "text"} -> Some(Primitive("Str"))
      [] ident \in {"bstr", "bytes"} -> Some(Primitive("Bytes"))
      [] OTHER -> None

\* a concrete_type that keeps the Alias wrapper new_type returns
ConcreteType_keep_alias(resolved) == resolved

\* concrete_type of parse_type: the target of the alias new_type resolved the name to
ConcreteType(resolved) == IF resolved.t = "Alias" THEN resolved.ty ELSE resolved

\* parse_type on a typename
ParseTypename(tys, type_name, type1, outer_tag, generic_params) ==
    With(type1.type2.ident, LAMBDA ident :
    IF type1.operator.some
    THEN With(parse_control_operator(tys, Type2AndParent(type1.type2, type1), type1.operator.v),
         LAMBDA control :
         With(ControlFieldType(ident), LAMBDA field_type :
         IF IsErr(control) THEN control
         ELSE IF generic_params.some
         THEN Err(control.types, "Generics combined with range specifiers not supported")
         ELSE IF control.v.c = "Range"
         THEN IF ident \in {"int", "uint"}
              THEN With(range_to_primitive(control.v.min_max[1], control.v.min_max[2]), LAMBDA t :
                   IF t.some THEN Ok(register_type_alias(control.types, type_name, t.v), TRUE)
                   ELSE Err(control.types, "unsupported range"))
              ELSE IF ~field_type.some
              THEN Err(control.types, "range control specifiers not supported for type")
              ELSE Ok(register_rust_struct(control.types,
                          new_wrapper(type_name, outer_tag, field_type.v,
                                      Some(control.v.min_max))), TRUE)
         ELSE IF ~field_type.some
         THEN Err(control.types, "range control specifiers not supported for type")
         ELSE IF field_type.v = Primitive("Bytes")
         THEN Ok(register_type_alias(control.types, type_name, CBORBytes(control.v.ty)), TRUE)
         ELSE Err(control.types, ".cbor is only allowed on bytes as per CDDL spec")))
    ELSE With(ConcreteType(new_type(tys, ident)), LAMBDA concrete_type :
         IF generic_params.some
         THEN Err(tys, "not yet implemented: generics on defined types")
         ELSE IF type1.type2.generic_args.some
         THEN With(LowerAll(tys, type1.type2.generic_args.v), LAMBDA generic_args :
              IF IsErr(generic_args) THEN generic_args
              ELSE Ok(register_generic_instance(generic_args.types,
                          GenericInstance(type_name, RustIdent(ident), generic_args.v)), TRUE))
         ELSE IF RuleMetadataFrom(type1.comments_after_type).is_newtype
         THEN Ok(register_rust_struct(tys, new_wrapper(type_name, None, concrete_type, None)), TRUE)
         ELSE Ok(register_type_alias(tys, type_name, concrete_type), TRUE)))

\* parse_type on #6.tag(typename ...): the Either::Right arm
ParseTaggedTypename(tys, type_name, tag, inner_type1) ==
    With(inner_type1.type2.ident, LAMBDA ident :
    With(IF inner_type1.operator.some
         THEN parse_control_operator(tys, Type2AndParent(inner_type1.type2, inner_type1),
                                     inner_type1.operator.v)
         ELSE Ok(tys, [c |-> "None"]), LAMBDA control :
    IF IsErr(control) THEN control
    ELSE IF control.v.c = "Range"
    THEN IF ident \in {"int", "uint"}
         THEN With(range_to_primitive(control.v.min_max[1], control.v.min_max[2]), LAMBDA t :
              IF t.some THEN Ok(register_type_alias(control.types, type_name, t.v), TRUE)
              ELSE Err(control.types, "unsupported range"))
         ELSE Ok(register_rust_struct(control.types,
                     new_wrapper(type_name, tag, new_type(tys, ident),
                                 Some(control.v.min_max))), TRUE)
    ELSE With(apply_type_aliases(control.types, AliasIdent(ident)), LAMBDA base_type :
         IF ~base_type.some THEN Err(control.types, "Please move definition")
         ELSE IF control.v.c = "CBOR"
         THEN Ok(register_type_alias(control.types, type_name,
                                     Tagged(tag.v, CBORBytes(base_type.v))), TRUE)
         ELSE Ok(register_type_alias(control.types, type_name,
                                     Tagged(tag.v, base_type.v)), TRUE))))

\* a parse_type on an integer literal that evaluates the control and registers nothing
ParseNumberLiteral_unregistered(tys, type_name, type1) ==
    With(IF type1.operator.some
         THEN parse_control_operator(tys, Type2AndParent(type1.type2, type1), type1.operator.v)
         ELSE Ok(tys, [c |-> "None"]), LAMBDA control :
    IF IsErr(control) THEN control ELSE Ok(control.types, TRUE))

\* parse_type on an integer literal, possibly the start of a range
ParseNumberLiteral(tys, type_name, type1) ==
    With(IF type1.operator.some
         THEN parse_control_operator(tys, Type2AndParent(type1.type2, type1), type1.operator.v)
         ELSE Ok(tys, [c |-> "None"]), LAMBDA control :
    IF IsErr(control) THEN control
    ELSE With(IF control.v.c = "Range"
              THEN range_to_primitive(control.v.min_max[1], control.v.min_max[2])
              ELSE None, LAMBDA t :
         Ok(register_type_alias(control.types, type_name,
                IF t.some THEN t.v
                ELSE IF type1.type2.k = "IntValue" THEN Fixed(FixedInt(type1.type2.value))
                ELSE Fixed(FixedUint(type1.type2.value))), TRUE)))

\* a parse_type that hands every single tagged type that is no typename to the recursion
parse_type_tag_recursing(tys, type_name, type_choice, outer_tag, generic_params) ==
    With(type_choice.type1, LAMBDA type1 :
    With(type_choice.type1.type2, LAMBDA t2 :
    CASE t2.k = "Typename" -> ParseTypename(tys, type_name, type1, outer_tag, generic_params)
      [] t2.k \in {"Map", "Array"} ->
            rec_parse_group(tys, t2.group, type_name, IF t2.k = "Map" THEN "Map" ELSE "Array",
                            outer_tag, generic_params)
      [] t2.k = "TaggedData" ->
            IF outer_tag.some THEN Err(tys, "doubly nested tags are not supported")
            ELSE IF ~t2.tag.some
            THEN Err(tys, "not sure what empty tag here would mean - unsupported")
            ELSE IF Len(t2.t.type_choices) = 1
            THEN With(t2.t.type_choices[1], LAMBDA inner_type :
                 IF inner_type.type1.type2.k = "Typename"
                 THEN ParseTaggedTypename(tys, type_name, t2.tag, inner_type.type1)
                 ELSE parse_type(tys, type_name, inner_type, t2.tag, generic_params))
            ELSE parse_type_choices(tys, type_name, t2.t.type_choices, t2.tag, generic_params)
      [] t2.k \in {"IntValue", "UintValue"} -> ParseNumberLiteral(tys, type_name, type1)
      [] t2.k = "TextValue" ->
            Ok(register_type_alias(tys, type_name, Fixed(FixedText(t2.text))), TRUE)
      [] OTHER -> Err(tys, "ignored typename")))

parse_type(tys, type_name, type_choice, outer_tag, generic_params) ==
    With(type_choice.type1, LAMBDA type1 :
    With(type_choice.type1.type2, LAMBDA t2 :
    CASE t2.k = "Typename" -> ParseTypename(tys, type_name, type1, outer_tag, generic_params)
      [] t2.k \in {"Map", "Array"} ->
            rec_parse_group(tys, t2.group, type_name, IF t2.k = "Map" THEN "Map" ELSE "Array",
                            outer_tag, generic_params)
      [] t2.k = "TaggedData" ->
            IF outer_tag.some THEN Err(tys, "doubly nested tags are not supported")
            ELSE IF ~t2.tag.some
            THEN Err(tys, "not sure what empty tag here would mean - unsupported")
            ELSE IF Len(t2.t.type_choices) = 1
            THEN With(t2.t.type_choices[1], LAMBDA inner_type :
                 CASE inner_type.type1.type2.k = "Typename" ->
                          ParseTaggedTypename(tys, type_name, t2.tag, inner_type.type1)
                   [] inner_type.type1.type2.k \in {"Map", "Array"} ->
                          parse_type(tys, type_name, inner_type, t2.tag, generic_params)
                   [] OTHER -> Err(tys, "only supports tagged arrays/maps/typenames"))
            ELSE parse_type_choices(tys, type_name, t2.t.type_choices, t2.tag, generic_params)
      [] t2.k \in {"IntValue", "UintValue"} -> ParseNumberLiteral(tys, type_name, type1)
      [] t2.k = "TextValue" ->
            Ok(register_type_alias(tys, type_name, Fixed(FixedText(t2.text))), TRUE)
      [] OTHER -> Err(tys, "ignored typename")))

TypeRule(name, generic_params, value) ==
    [k |-> "Type", name |-> name, generic_params |-> generic_params, value |-> value]
GroupRule(name, generic_params, entry) ==
    [k |-> "Group", name |-> name, generic_params |-> generic_params, entry |-> entry]

parse_rule(tys, cddl_rule) ==
    IF cddl_rule.k = "Type"
    THEN LET rust_ident == RustIdent(cddl_rule.name)
             generic_params ==
                 IF cddl_rule.generic_params.some
                 THEN Some([i \in 1..Len(cddl_rule.generic_params.v) |->
                               RustIdent(cddl_rule.generic_params.v[i])])
                 ELSE None
         IN  IF Len(cddl_rule.value.type_choices) = 1
             THEN parse_type(tys, rust_ident, cddl_rule.value.type_choices[1], None, generic_params)
             ELSE parse_type_choices(tys, rust_ident, cddl_rule.value.type_choices, None,
                                     generic_params)
    ELSE IF cddl_rule.generic_params.some THEN Err(tys, "Generics not supported on plain groups")
    ELSE IF cddl_rule.entry.k = "InlineGroup" THEN Ok(tys, TRUE)
    ELSE Err(tys, "Group rule with non-inline group?")

(***************************************************************************)
(* Integer literals the explorations draw from: the bounds of every        *)
(* primitive and their neighbours within Slack, as 64-bit words.           *)
(***************************************************************************)
Offsets == (0 - Slack)..Slack
BoundaryMath ==
    UNION {{MAdd(PrimMin(p), M(d)), MAdd(PrimMax(p), M(d))} : p \in IntPrimitives, d \in Offsets}
\* literals a CDDL text can carry: uint literals are u64, negative ones i64
UintLiterals == {SubSeq(m, 1, 4) : m \in {b \in BoundaryMath : ~IsNegL(b) /\ b[5] = 0}}
IntLiterals == {SubSeq(m, 1, 4) : m \in {b \in BoundaryMath : IsNegL(b) /\ FitsIsize(b)}}
BoundaryWords == UintLiterals \cup IntLiterals

(***************************************************************************)
(* The schemas explored.  Rule i of a schema is named RuleNames[i]; the    *)
(* name "later" is never defined (a forward reference).                    *)
(***************************************************************************)
RuleNames == <<"foo", "bar", "baz", "qux", "zed">>

Lit(m) == IF IsNegL(m) THEN IntValue(SubSeq(m, 1, 4)) ELSE UintValue(SubSeq(m, 1, 4))
IsLiteral(m) == IF IsNegL(m) THEN FitsIsize(m) ELSE m[5] = 0
Literals == {UintValue(w) : w \in UintLiterals} \cup {IntValue(w) : w \in IntLiterals}
Small(n) == UintValue(W(n))

Ty(id) == Type(<<Type1(Typename(id))>>)
Ctl(parent, ctrl, operand) == Type1Op(Typename(parent), CtlOp(ctrl), operand)
Tag(n, t) == Type1(TaggedData(Some(n), t))
Tags == 1..MaxTag
NewtypeComment == Some(<<[d |-> "newtype"]>>)
NameComment(n) == Some(<<[d |-> "name", v |-> n]>>)

PlainBodies ==
    {Ty(id) : id \in {"uint", "int", "bytes", "text", "null", "foo", "bar", "later"}}
    \cup {Type(<<Type1C(Typename("uint"), None, NewtypeComment)>>),
          Type(<<Type1(TextValue("hello"))>>), Type(<<Type1(Small(5))>>),
          Type(<<Type1(FloatValue)>>),
          Type(<<Type1(TypenameArgs("foo", <<Type1(Typename("text"))>>))>>)}

\* operands of .size: n, (l..h) and (l...h)
SizeRanges == {<<0, 1>>, <<1, 2>>, <<0, 8>>, <<0, 32>>}
SizeOperands ==
    {Small(n) : n \in 0..MaxSize}
    \cup {ParenthesizedType(Type(<<Type1Op(Small(r[1]), RangeOp(incl), Small(r[2]))>>)) :
             r \in SizeRanges, incl \in BOOLEAN}
SizeParents == {"uint", "int", "bytes", "bstr", "text", "tstr", "foo"}
CompareOps == {".eq", ".ne", ".le", ".lt", ".ge", ".gt"}

ControlType1s ==
    {Ctl(p, ".size", o) : p \in SizeParents, o \in SizeOperands}
    \cup {Ctl(p, c, l) : p \in {"uint", "int", "bytes"}, c \in CompareOps, l \in Literals}
    \cup {Ctl(p, ".cbor", Typename(x)) : p \in {"bytes", "bstr", "text", "uint"},
                                         x \in {"foo", "uint", "later"}}
    \cup {Ctl("bytes", ".default", Small(1)), Ctl("bytes", ".regexp", TextValue("hello")),
          Ctl("uint", ".le", Typename("foo")), Ctl("uint", ".size", TextValue("hello"))}

\* literal ranges around the bounds of each primitive
RangeType1s ==
    {Type1Op(Lit(MAdd(PrimMin(p), M(d1))), RangeOp(incl), Lit(MAdd(PrimMax(p), M(d2)))) :
        <<p, d1, d2, incl>> \in {x \in IntPrimitives \X Offsets \X Offsets \X BOOLEAN :
            IsLiteral(MAdd(PrimMin(x[1]), M(x[2]))) /\ IsLiteral(MAdd(PrimMax(x[1]), M(x[3])))}}
    \cup {Type1Op(Small(0), RangeOp(TRUE), Typename("foo")),
          Type1Op(Typename("foo"), RangeOp(TRUE), Small(5))}

\* group entries and groups
TInt == Ty("int")
TText == Ty("text")
NestedTag == Type(<<Tag(1, Type(<<Tag(2, TInt)>>))>>)
Bare(id, t) == ValueMemberKey(None, Some(MemberKeyBareword(id)), t, None)
Keyed(val, t) == ValueMemberKey(None, Some(MemberKeyValue(val)), t, None)
Typed(t1, t) == ValueMemberKey(Occur("ZeroOrMore"), Some(MemberKeyType1(t1)), t, None)
Unkeyed(t) == ValueMemberKey(None, None, t, None)

\* types that register an anonymous construct where they are used
IntOrText == Type(<<Type1(Typename("int")), Type1(Typename("text"))>>)
FooOfText == Type(<<Type1(TypenameArgs("foo", <<Type1(Typename("text"))>>))>>)
NamedPair(n) ==
    Type(<<Type1C(ArrayT(Group(<<GroupChoice(<<Bare("x", TInt), Bare("y", TInt)>>)>>)), None,
                  NameComment(n))>>)

\* the types a two-alternative choice with null is built from
OptionalOperands ==
    {Type1(Typename(id)) : id \in {"int", "foo", "later", "null", "nil"}}
    \cup {Tag(n, TInt) : n \in Tags}
    \cup {Ctl("uint", ".size", Small(1)), Ctl("bytes", ".cbor", Typename("foo")),
          Type1(TextValue("hello")), Type1(Small(5)),
          Type1(ArrayT(Group(<<GroupChoice(<<Unkeyed(TInt)>>)>>))),
          Type1(MapT(Group(<<GroupChoice(<<Typed(Type1(Typename("uint")), TText)>>)>>))),
          Type1(MapT(Group(<<GroupChoice(<<Bare("a", TInt)>>)>>))),
          Type1(Typename("int")) }
Nulls == {Type1(Typename("null")), Type1(Typename("nil"))}

\* a choice of one type and null, in both orders
OptionalChoices ==
    {Type(<<t, n>>) : t \in OptionalOperands, n \in Nulls}
    \cup {Type(<<n, t>>) : t \in OptionalOperands, n \in Nulls}

SingleEntries ==
    {Bare("a", TInt), Bare("a", NestedTag), Bare("a", Type(<<Type1(Typename("int")), Type1(Typename("null"))>>)),
     ValueMemberKey(Occur("Optional"), Some(MemberKeyBareword("a")), TText, None),
     Keyed(TokenUINT(W(1)), TInt), Keyed(TokenTEXT("a"), TInt), Keyed(TokenFLOAT, TInt),
     ValueMemberKey(None, Some(MemberKeyValue(TokenUINT(W(1)))), TInt, NameComment("named")),
     Typed(Type1(Typename("uint")), TText), Typed(Type1(Small(1)), TInt),
     Typed(Type1(TextValue("hello")), TInt), Typed(Type1(Typename("uint")), NestedTag),
     ValueMemberKey(None, Some(MemberKeyNonMemberKey), TInt, None),
     Unkeyed(TInt), Unkeyed(NestedTag), Unkeyed(Type(<<Type1(Small(1))>>)),
     TypeGroupname(None, "foo", None), TypeGroupname(None, "uint", None), InlineGroup,
     Bare("a", Type(<<Ctl("text", ".cbor", Typename("uint"))>>)),
     Bare("a", Type(<<Ctl("bytes", ".cbor", Typename("uint"))>>))}
    \cup {Bare("a", t) : t \in OptionalChoices}

EntryLists ==
    {<<e>> : e \in SingleEntries}
    \cup {<<>>,
          <<Bare("a", TInt), Bare("a", TInt)>>,
          <<Bare("a", TInt), Bare("a", TInt), Bare("a2", TInt)>>,
          <<Bare("a", TInt), Bare("a", TInt), Bare("a", TInt)>>,
          <<Bare("x", TInt), Bare("y", TInt)>>,
          <<Bare("a", TInt), Unkeyed(TText)>>,
          <<Unkeyed(TInt), Unkeyed(TText)>>,
          <<Unkeyed(TInt), Unkeyed(TInt)>>,
          <<Keyed(TokenUINT(W(1)), TInt), Keyed(TokenUINT(W(2)), TText)>>,
          <<Typed(Type1(Small(1)), TInt), Typed(Type1(Small(2)), TText)>>,
          <<Typed(Type1(Typename("uint")), TText), Bare("a", TInt)>>,
          <<Bare("a", NestedTag), Bare("b", TInt)>>,
          <<Typed(Type1(TextValue("hello")), TInt), Typed(Type1(Small(2)), TText)>>,
          <<Typed(Type1(IntValue(WAllOnes)), TInt), Bare("b", TText)>>,
          <<Keyed(TokenTEXT("a"), TInt), Keyed(TokenINT(WAllOnes), TText)>>,
          <<Unkeyed(Type(<<Type1(TextValue("hello"))>>)),
            Unkeyed(Type(<<Type1(ArrayT(Group(<<GroupChoice(<<Unkeyed(TInt)>>)>>)))>>)),
            Unkeyed(Type(<<Type1(Typename("null")), Type1(Typename("text"))>>)),
            Unkeyed(Type(<<Type1(Small(1))>>))>>,
          <<ValueMemberKey(None, None, Type(<<Type1(Small(1))>>), NameComment("named")),
            Unkeyed(Type(<<Type1(ArrayT(Group(<<GroupChoice(<<TypeGroupname(None, "foo", None)>>)>>)))>>)),
            TypeGroupname(None, "foo", None)>>,
          <<TypeGroupname(None, "uint", NameComment("named")), TypeGroupname(None, "text", None)>>,
          <<Bare("a", IntOrText), Bare("b", TText)>>,
          <<Bare("a", IntOrText), Bare("b", IntOrText)>>,
          <<Bare("a", FooOfText), Bare("b", FooOfText)>>,
          <<Bare("a", NamedPair("pair")), Bare("b", TText)>>,
          <<Bare("a", NamedPair("foo")), Bare("b", TText)>>}

Groups ==
    {Group(<<GroupChoice(es)>>) : es \in EntryLists}
    \cup {Group(<<GroupChoice(<<Bare("a", TInt)>>), GroupChoice(<<Bare("b", TText)>>)>>),
          Group(<<GroupChoice(<<Unkeyed(TInt)>>), GroupChoice(<<Unkeyed(TInt)>>)>>),
          Group(<<GroupChoice(<<TypeGroupname(None, "foo", None)>>),
                  GroupChoice(<<Bare("a", TInt), Bare("b", TText)>>)>>),
          Group(<<GroupChoice(<<Bare("a", TInt), Bare("b", TText)>>),
                  GroupChoiceC(<<Bare("c", TInt), Bare("d", TText)>>, NameComment("pair"))>>),
          Group(<<GroupChoiceC(<<Bare("c", TInt), Bare("d", TText)>>, NameComment("pair")),
                  GroupChoice(<<TypeGroupname(None, "pair", None)>>),
                  GroupChoice(<<Bare("e", TText)>>)>>)}

GroupType1s == {Type1(MapT(g)) : g \in Groups} \cup {Type1(ArrayT(g)) : g \in Groups}

ChoiceTypes ==
    OptionalChoices
    \cup {Type(<<Type1(Typename("int")), Type1(Typename("text"))>>),
          Type(<<Type1(Typename("int")), Type1(Typename("int"))>>),
          Type(<<Type1(Typename("int")), Type1(Typename("text")), Type1(Typename("foo"))>>),
          Type(<<Type1(Typename("int")), Type1(Typename("text")), Type1(Typename("null"))>>),
          Type(<<Tag(1, Type(<<Tag(2, TInt)>>)), Type1(Typename("text"))>>),
          Type(<<Type1(Typename("int")), Ctl("uint", ".size", Small(3))>>)}

\* what a tag is applied to
TaggedInners ==
    {Ty(id) : id \in {"int", "bytes", "foo", "later"}}
    \cup {Type(<<t>>) : t \in {Ctl(p, ".cbor", Typename(x)) : p \in {"bytes", "text"},
                                                             x \in {"foo", "uint", "later"}}}
    \cup {Type(<<t>>) : t \in {Ctl(p, ".size", Small(n)) : p \in {"uint", "bytes", "foo"}, n \in {1, 3}}}
    \cup {Type(<<Ctl("uint", ".le", Small(255))>>), Type(<<Ctl("later", ".default", Small(1))>>)}
    \cup {Type(<<Tag(n, TInt)>>) : n \in Tags}
    \cup {Type(<<Type1(Small(5))>>),
          Type(<<Type1(ArrayT(Group(<<GroupChoice(<<Bare("x", TInt), Bare("y", TInt)>>)>>)))>>),
          Type(<<Type1(MapT(Group(<<GroupChoice(<<Typed(Type1(Typename("uint")), TText)>>)>>)))>>),
          Type(<<Type1(MapT(Group(<<GroupChoice(<<Bare("a", TInt)>>)>>)))>>),
          Type(<<Type1(ArrayT(Group(<<GroupChoice(<<Bare("a", NestedTag)>>)>>)))>>),
          Type(<<Type1(ArrayT(Group(<<GroupChoice(<<Bare("a", TInt)>>),
                                     GroupChoice(<<Bare("b", TText)>>)>>)))>>)}
    \cup {t \in ChoiceTypes : Len(t.type_choices) = 2 /\ t.type_choices[2].type1 = Type1(Typename("null"))}
    \cup {Type(<<Type1(Typename("null")), Tag(n, TInt)>>) : n \in Tags}
    \cup {Type(<<Type1(Typename("int")), Type1(Typename("text"))>>)}

TaggedTypes ==
    {Type(<<Tag(n, inner)>>) : n \in Tags, inner \in TaggedInners}
    \cup {Type(<<Type1(TaggedData(None, TInt))>>)}

Bodies ==
    PlainBodies
    \cup {Type(<<t>>) : t \in ControlType1s \cup RangeType1s \cup GroupType1s}
    \cup ChoiceTypes
    \cup TaggedTypes

\* the rules that may precede the last rule of a schema
Definitions ==
    {Ty("uint"), Ty("later"), Type(<<Tag(2, TInt)>>),
     Type(<<Ctl("uint", ".size", Small(1))>>),
     Type(<<Type1(Typename("int")), Type1(Typename("null"))>>),
     Type(<<Type1(ArrayT(Group(<<GroupChoice(<<Bare("x", TInt), Bare("y", TInt)>>)>>)))>>)}

GenericRules(name) ==
    {TypeRule(name, Some(<<"t">>), b) :
        b \in {Ty("uint"), Type(<<Ctl("uint", ".size", Small(1))>>),
               Type(<<Type1(Typename("t")), Type1(Typename("null"))>>),
               Type(<<Type1(Typename("t")), Type1(Typename("text"))>>),
               Type(<<Type1(ArrayT(Group(<<GroupChoice(<<Bare("a", Ty("t"))>>)>>)))>>),
               Type(<<Type1(ArrayT(Group(<<GroupChoice(<<Bare("a", Ty("t"))>>),
                                          GroupChoice(<<Bare("b", TInt)>>)>>)))>>),
               Type(<<Type1(MapT(Group(<<GroupChoice(<<Bare("a", TInt), Bare("b", TText)>>),
                                        GroupChoice(<<Bare("c", TInt)>>)>>)))>>)}}
GroupRules(name) ==
    {GroupRule(name, None, InlineGroup), GroupRule(name, Some(<<"t">>), InlineGroup),
     GroupRule(name, None, Bare("a", TInt))}

\* the rules a schema may have at position i
RulesAt(i) ==
    IF i < MaxRules THEN {TypeRule(RuleNames[i], None, b) : b \in Definitions}
    ELSE {TypeRule(RuleNames[i], None, b) : b \in Bodies}
         \cup GenericRules(RuleNames[i]) \cup GroupRules(RuleNames[i])

(***************************************************************************)
(* The pass: parse_rule on the rules of a schema, in source order, until   *)
(* the schema ends or a rule aborts the pass.                              *)
(***************************************************************************)
NoRule == [k |-> "None"]

Init ==
    /\ types = NewTypes
    /\ nrules = 0
    /\ arg = NoRule
    /\ ret = [err |-> ""]
    /\ overflow_checks \in BOOLEAN
    /\ calls = <<>>

ParseRule ==
    /\ nrules < MaxRules
    /\ ret.err = ""
    /\ \E rule \in RulesAt(nrules + 1) :
          \E r \in {parse_rule(types, rule)} :
              /\ types' = r.types
              /\ ret' = [err |-> r.err]
              /\ arg' = rule
    /\ nrules' = nrules + 1
    /\ UNCHANGED <<overflow_checks, calls>>

Next == ParseRule

Spec == Init /\ [][Next]_vars

(***************************************************************************)
(* The pass on schemas of plain references: rule i is a bare name, either  *)
(* reserved, undefined, or the name of a rule of the schema (an earlier    *)
(* one, itself, or a later one), or one of a few definitions to refer to.  *)
(***************************************************************************)
AliasTargets == {"uint", "bytes", "later"} \cup {RuleNames[j] : j \in 1..MaxChain}
AliasRulesAt(i) ==
    {TypeRule(RuleNames[i], None, Ty(x)) : x \in AliasTargets}
    \cup {TypeRule(RuleNames[i], None, b) :
             b \in {Type(<<Tag(2, TInt)>>), Type(<<Type1C(Typename("uint"), None, NewtypeComment)>>),
                    Type(<<Type1(Typename("int")), Type1(Typename("null"))>>)}}

ParseAliasRule ==
    /\ nrules < MaxChain
    /\ ret.err = ""
    /\ \E rule \in AliasRulesAt(nrules + 1) :
          \E r \in {parse_rule(types, rule)} :
              /\ types' = r.types
              /\ ret' = [err |-> r.err]
              /\ arg' = rule
    /\ nrules' = nrules + 1
    /\ UNCHANGED <<overflow_checks, calls>>

InitAlias ==
    /\ types = NewTypes
    /\ nrules = 0
    /\ arg = NoRule
    /\ ret = [err |-> ""]
    /\ overflow_checks = TRUE
    /\ calls = <<>>

NextAlias == ParseAliasRule

SpecAlias == InitAlias /\ [][NextAlias]_vars

(***************************************************************************)
(* Specification of range_to_primitive alone.                              *)
(***************************************************************************)
OptWords == {None} \cup {Some(w) : w \in BoundaryWords}

InitRange ==
    /\ types = NewTypes
    /\ nrules = 0
    /\ arg \in {[op |-> "range_to_primitive", low |-> l, high |-> h] : l \in OptWords, h \in OptWords}
    /\ ret = [done |-> FALSE]
    /\ overflow_checks \in BOOLEAN
    /\ calls = <<>>

CallRangeToPrimitive ==
    /\ ~ret.done
    /\ ret' = [done |-> TRUE, v |-> range_to_primitive(arg.low, arg.high)]
    /\ UNCHANGED <<types, nrules, arg, overflow_checks, calls>>

NextRange == CallRangeToPrimitive

SpecRange == InitRange /\ [][NextRange]_vars

(***************************************************************************)
(* The pass call by call.  A call is the function called, the syntax node  *)
(* it is called on, the representation (for parse_group and                *)
(* parse_group_choice) and its depth in the chain of calls.  The calls a   *)
(* function makes are read off its body, in the order it makes them; which *)
(* of them are cut short by a panic depends on the catalog and on the      *)
(* literals, so any call may abort the pass.                               *)
(***************************************************************************)
FrameRep(fn, node, rep) == [fn |-> fn, node |-> node, rep |-> rep, depth |-> 0]
Frame(fn, node) == FrameRep(fn, node, "")
EachFrame(fn, nodes) == [i \in 1..Len(nodes) |-> Frame(fn, nodes[i])]
RECURSIVE Flatten(_)
Flatten(ss) == IF ss = <<>> THEN <<>> ELSE Head(ss) \o Flatten(Tail(ss))
Type1sOf(type_choices) == [i \in 1..Len(type_choices) |-> type_choices[i].type1]
\* the operand of T / null or null / T
OptionalInner(type_choices) ==
    IF Len(type_choices) = 2
    THEN IF type2_is_null(type_choices[1].type1.type2) THEN Some(type_choices[2].type1)
         ELSE IF type2_is_null(type_choices[2].type1.type2) THEN Some(type_choices[1].type1)
         ELSE None
    ELSE None
ControlCall(type1) ==
    IF type1.operator.some THEN <<Frame("parse_control_operator", type1.operator.v)>> ELSE <<>>

calls_parse_rule(rule) ==
    IF rule.k = "Type"
    THEN IF Len(rule.value.type_choices) = 1
         THEN <<Frame("parse_type", rule.value.type_choices[1])>>
         ELSE <<Frame("parse_type_choices", rule.value.type_choices)>>
    ELSE <<>>

\* create_variants_from_type_choices, which both callers run on all the choices
calls_create_variants(type_choices) == EachFrame("rust_type_from_type1", Type1sOf(type_choices))

calls_parse_type_choices(type_choices) ==
    IF OptionalInner(type_choices).some
    THEN <<Frame("rust_type_from_type1", OptionalInner(type_choices).v)>>
    ELSE calls_create_variants(type_choices)

calls_parse_control_operator(op) ==
    IF op.operator.k = "CtlOp" /\ op.operator.ctrl = ".cbor"
    THEN <<Frame("rust_type_from_type2", op.type2)>>
    ELSE <<>>

calls_parse_type(type_choice) ==
    LET type1 == type_choice.type1
        t2 == type1.type2
    IN  CASE t2.k = "Typename" ->
                IF type1.operator.some THEN ControlCall(type1)
                ELSE IF t2.generic_args.some
                THEN EachFrame("rust_type_from_type1", t2.generic_args.v)
                ELSE <<>>
          [] t2.k \in {"Map", "Array"} -> <<FrameRep("parse_group", t2.group, t2.k)>>
          [] t2.k = "TaggedData" ->
                IF Len(t2.t.type_choices) = 1
                THEN LET inner_type == t2.t.type_choices[1]
                     IN  CASE inner_type.type1.type2.k \in {"Map", "Array"} ->
                                 <<Frame("parse_type", inner_type)>>
                           [] inner_type.type1.type2.k = "Typename" -> ControlCall(inner_type.type1)
                           [] OTHER -> <<>>
                ELSE <<Frame("parse_type_choices", t2.t.type_choices)>>
          [] t2.k \in {"IntValue", "UintValue"} -> ControlCall(type1)
          [] OTHER -> <<>>

calls_rust_type_from_type1(type1) ==
    IF /\ type1.operator.some
       /\ \/ type1.operator.v.operator.k = "CtlOp" /\ type1.operator.v.operator.ctrl = ".cbor"
          \/ type1.type2.k = "Typename" /\ type1.type2.ident \in {"uint", "int"}
    THEN ControlCall(type1)
    ELSE ControlCall(type1) \o <<Frame("rust_type_from_type2", type1.type2)>>

calls_table(group_choice) ==
    <<Frame("rust_type_from_type1", group_choice.group_entries[1][1].ge.member_key.v.t1),
      Frame("rust_type", group_choice.group_entries[1][1].ge.entry_type)>>
IsTable(group_choice, rep) ==
    /\ rep = "Map"
    /\ Len(group_choice.group_entries) = 1
    /\ group_choice.group_entries[1][1].k = "ValueMemberKey"
    /\ group_choice.group_entries[1][1].ge.member_key.some
    /\ group_choice.group_entries[1][1].ge.member_key.v.k = "Type1"

\* a rust_type_from_type2 that lowers what a tag is applied to by calling itself on the tag
calls_rust_type_from_type2_reentering(t2) ==
    IF t2.k = "TaggedData" THEN <<Frame("rust_type_from_type2", t2)>> ELSE <<>>

calls_rust_type_from_type2(t2) ==
    CASE t2.k = "Typename" ->
            IF t2.generic_args.some THEN EachFrame("rust_type_from_type1", t2.generic_args.v)
            ELSE <<>>
      [] t2.k = "Array" ->
            IF Len(t2.group.group_choices) = 1
            THEN LET choice == t2.group.group_choices[1]
                 IN  IF Len(choice.group_entries) = 1
                     THEN IF choice.group_entries[1][1].k = "ValueMemberKey"
                          THEN <<Frame("rust_type", choice.group_entries[1][1].ge.entry_type)>>
                          ELSE <<>>
                     ELSE <<FrameRep("parse_group", t2.group, "Array")>>
            ELSE <<>>
      [] t2.k = "Map" ->
            IF Len(t2.group.group_choices) = 1 /\ IsTable(t2.group.group_choices[1], "Map")
            THEN calls_table(t2.group.group_choices[1])
            ELSE <<>>
      [] t2.k = "TaggedData" -> <<Frame("rust_type", t2.t)>>
      [] OTHER -> <<>>

calls_rust_type(t) ==
    IF Len(t.type_choices) = 1 THEN <<Frame("rust_type_from_type1", t.type_choices[1].type1)>>
    ELSE IF OptionalInner(t.type_choices).some
    THEN <<Frame("rust_type_from_type1", OptionalInner(t.type_choices).v)>>
    ELSE calls_create_variants(t.type_choices)

calls_group_entry_to_type(entry) ==
    IF entry.k = "ValueMemberKey" THEN <<Frame("rust_type", entry.ge.entry_type)>> ELSE <<>>

calls_parse_group_choice(group_choice, rep) ==
    IF IsTable(group_choice, rep) THEN calls_table(group_choice)
    ELSE Flatten([i \in 1..Len(group_choice.group_entries) |->
                     calls_group_entry_to_type(group_choice.group_entries[i][1])])

calls_parse_group(group, rep) ==
    IF Len(group.group_choices) = 1
    THEN <<FrameRep("parse_group_choice", group.group_choices[1], rep)>>
    ELSE Flatten([i \in 1..Len(group.group_choices) |->
                     IF Len(group.group_choices[i].group_entries) = 1
                     THEN calls_group_entry_to_type(group.group_choices[i].group_entries[1][1])
                     ELSE <<FrameRep("parse_group_choice", group.group_choices[i], rep)>>])

\* the calls a call makes
Callees(frame) ==
    CASE frame.fn = "parse_rule" -> calls_parse_rule(frame.node)
      [] frame.fn = "parse_type" -> calls_parse_type(frame.node)
      [] frame.fn = "parse_type_choices" -> calls_parse_type_choices(frame.node)
      [] frame.fn = "parse_control_operator" -> calls_parse_control_operator(frame.node)
      [] frame.fn = "rust_type_from_type1" -> calls_rust_type_from_type1(frame.node)
      [] frame.fn = "rust_type_from_type2" -> calls_rust_type_from_type2(frame.node)
      [] frame.fn = "rust_type" -> calls_rust_type(frame.node)
      [] frame.fn = "parse_group" -> calls_parse_group(frame.node, frame.rep)
      [] frame.fn = "parse_group_choice" -> calls_parse_group_choice(frame.node, frame.rep)

\* the rules of the schemas followed call by call: the bodies of every shape, with one
\* literal for each shape of control (the calls made do not depend on the literals)
CallBodies ==
    PlainBodies
    \cup {Type(<<t>>) : t \in GroupType1s}
    \cup {Type(<<Ctl(p, c, Small(1))>>) : p \in {"uint", "bytes"}, c \in {".size", ".le", ".default"}}
    \cup {Type(<<Ctl(p, ".cbor", x)>>) : p \in {"bytes", "text"},
                                         x \in {Typename("foo"), TaggedData(Some(1), TInt)}}
    \cup {Type(<<Type1Op(Small(0), RangeOp(TRUE), Small(255))>>)}
    \cup ChoiceTypes
    \cup TaggedTypes
CallRulesAt(i) ==
    IF i < MaxRules THEN {TypeRule(RuleNames[i], None, b) : b \in Definitions}
    ELSE {TypeRule(RuleNames[i], None, b) : b \in CallBodies}
         \cup GenericRules(RuleNames[i]) \cup GroupRules(RuleNames[i])

InitCalls ==
    /\ types = NewTypes
    /\ nrules = 0
    /\ arg = NoRule
    /\ ret = [err |-> ""]
    /\ overflow_checks = TRUE
    /\ calls = <<>>

\* parse_rule is called on the next rule of the schema
CallParseRule ==
    /\ calls = <<>>
    /\ ret.err = ""
    /\ nrules < MaxRules
    /\ \E rule \in CallRulesAt(nrules + 1) :
          /\ arg' = rule
          /\ calls' = <<Frame("parse_rule", rule)>>
    /\ nrules' = nrules + 1
    /\ UNCHANGED <<types, ret, overflow_checks>>

\* the next call is made and runs up to the calls it makes itself
CallNext ==
    /\ calls # <<>>
    /\ calls' = [i \in 1..Len(Callees(Head(calls))) |->
                    [Callees(Head(calls))[i] EXCEPT !.depth = Head(calls).depth + 1]]
                 \o Tail(calls)
    /\ UNCHANGED <<types, nrules, arg, ret, overflow_checks>>

\* the next call panics
CallPanics ==
    /\ calls # <<>>
    /\ calls' = <<>>
    /\ ret' = [err |-> "panic"]
    /\ UNCHANGED <<types, nrules, arg, overflow_checks>>

NextCalls == CallParseRule \/ CallNext \/ CallPanics

\* the pass is one thread that runs on: it takes its next step whenever it has one
SpecCalls == InitCalls /\ [][NextCalls]_vars /\ WF_vars(NextCalls)

(***************************************************************************)
(* Properties.  In Spec, arg is the rule parse_rule was last called on,    *)
(* ret.err its panic message ("" when it returned) and types the catalog   *)
(* it left.                                                                *)
(***************************************************************************)
IsTypeRule == arg.k = "Type" /\ ~arg.generic_params.some
SingleChoice == IsTypeRule /\ Len(arg.value.type_choices) = 1
Body1 == arg.value.type_choices[1].type1
RuleIdent == RustIdent(arg.name)
Returned == ret.err = ""
HasAlias == RuleIdent \in DOMAIN types.type_aliases
AliasRegistered(ty) == HasAlias /\ types.type_aliases[RuleIdent] = ty
HasStruct == RuleIdent \in DOMAIN types.rust_structs
StructRegistered(st) == HasStruct /\ types.rust_structs[RuleIdent] = st
NothingRegistered ==
    /\ ~HasAlias
    /\ ~HasStruct
    /\ RuleIdent \notin DOMAIN types.generic_defs
    /\ RuleIdent \notin DOMAIN types.generic_instances
    /\ \A i \in 1..Len(types.log) : types.log[i].ident # RuleIdent
\* the body is #6.n(inner) with a single inner alternative
TaggedSingle ==
    /\ SingleChoice
    /\ Body1.type2.k = "TaggedData"
    /\ Body1.type2.tag.some
    /\ Len(Body1.type2.t.type_choices) = 1
TaggedInner1 == Body1.type2.t.type_choices[1].type1
\* the mathematical value of a literal as written
MathLit(t2) == IF t2.k = "UintValue" THEN ZExt(t2.value) ELSE SExt(t2.value)

\* C1: a rule name = #6.n(bytes .cbor T), T an alias registered before, registers
\* name = Tagged(n, CBORBytes(X)) with X the alias-chased form of the operand T.
C1_TaggedCborOperand ==
    (/\ TaggedSingle
     /\ TaggedInner1.type2.k = "Typename"
     /\ TaggedInner1.type2.ident \in {"bytes", "bstr"}
     /\ TaggedInner1.operator.some
     /\ TaggedInner1.operator.v.operator = CtlOp(".cbor")
     /\ TaggedInner1.operator.v.type2.k = "Typename"
     /\ TaggedInner1.operator.v.type2.ident # arg.name
     /\ AliasIdent(TaggedInner1.operator.v.type2.ident) \in DOMAIN types.type_aliases)
    => /\ Returned
       /\ AliasRegistered(Tagged(Body1.type2.tag.v,
              CBORBytes(apply_type_aliases(types,
                  AliasIdent(TaggedInner1.operator.v.type2.ident)).v)))

\* C2: a group choice is a Table exactly when the representation is Map, it has one
\* entry and that entry's key is a Type1 expression; a single-entry map group keyed by a
\* literal value or a bareword is a 1-field Record, without aborting; no Array group is a Table.
GroupBody == SingleChoice /\ Body1.type2.k \in {"Map", "Array"}
                          /\ Len(Body1.type2.group.group_choices) = 1
GroupBodyChoice == Body1.type2.group.group_choices[1]
GroupBodyEntry == GroupBodyChoice.group_entries[1][1]
SingleKeyed(kinds) ==
    /\ Len(GroupBodyChoice.group_entries) = 1
    /\ GroupBodyEntry.k = "ValueMemberKey"
    /\ GroupBodyEntry.ge.member_key.some
    /\ GroupBodyEntry.ge.member_key.v.k \in kinds
C2_TableVsRecord ==
    GroupBody =>
        LET rep == Body1.type2.k
            c   == table_domain_range(GroupBodyChoice, rep)
        IN  /\ (c.err = "" /\ c.v.some) <=> (rep = "Map" /\ SingleKeyed({"Type1"}))
            /\ (Returned /\ HasStruct) =>
                  ((types.rust_structs[RuleIdent].variant = "Table")
                      <=> (rep = "Map" /\ SingleKeyed({"Type1"})))
            /\ (rep = "Map" /\ SingleKeyed({"Value", "Bareword"})) => (c.err = "" /\ ~c.v.some)

\* C3: a rule on int/uint with a control, or an integer-literal range rule, whose range
\* is exactly (min(P), max(P)) registers name = Primitive(P); a range one unit narrower
\* at either end registers no primitive alias for name.
C3Type1 == IF Body1.type2.k = "TaggedData" THEN TaggedInner1 ELSE Body1
C3Subject ==
    /\ SingleChoice
    /\ (Body1.type2.k = "TaggedData" => TaggedSingle)
    /\ C3Type1.operator.some
    /\ \/ C3Type1.type2.k = "Typename" /\ C3Type1.type2.ident \in {"int", "uint"}
       \/ /\ Body1.type2.k # "TaggedData"
          /\ IsNumberLiteral(Body1.type2)
          /\ Body1.operator.v.operator.k = "RangeOp"
C3Implications(lo, hi) ==
    \A p \in IntPrimitives :
        /\ (lo = PrimMin(p) /\ hi = PrimMax(p)) => (Returned /\ AliasRegistered(Primitive(p)))
        /\ (\/ lo = MAdd(PrimMin(p), M(1)) /\ hi = PrimMax(p)
            \/ lo = PrimMin(p) /\ hi = MSub(PrimMax(p), M(1)))
           => ~(HasAlias /\ types.type_aliases[RuleIdent].t = "Primitive")
C4_RangeToPrimitiveExact ==
    (arg.op = "range_to_primitive" /\ ret.done) =>
        LET fits(p) == /\ arg.low.some /\ arg.high.some
                       /\ SExt(arg.low.v) = PrimMin(p) /\ SExt(arg.high.v) = PrimMax(p)
        IN  /\ \A p \in IntPrimitives : (ret.v = Some(Primitive(p))) <=> fits(p)
            /\ (ret.v = None) <=> ~\E p \in IntPrimitives : fits(p)

\* C5: for integer literals a and b the evaluator yields Range(a, b) for a..b and
\* Range(a, b-1) for a...b, also for the parenthesized range operand of .size.
C5Expected(a, b, incl, got) ==
    /\ got.err = ""
    /\ got.v[1] = Some(a)
    /\ got.v[2].some
    /\ SExt(got.v[2].v) = IF incl THEN SExt(b) ELSE MSub(SExt(b), M(1))
C5_RangeEndpoints ==
    /\ (/\ SingleChoice /\ Body1.operator.some
        /\ Body1.operator.v.operator.k = "RangeOp"
        /\ IsNumberLiteral(Body1.type2) /\ IsNumberLiteral(Body1.operator.v.type2)
        /\ MathLit(Body1.type2) = SExt(NumberLiteral(Body1.type2))
        /\ MathLit(Body1.operator.v.type2) = SExt(NumberLiteral(Body1.operator.v.type2)))
       => LET c == RangeControl(Body1.type2, Body1.operator.v)
          IN  C5Expected(NumberLiteral(Body1.type2), NumberLiteral(Body1.operator.v.type2),
                         Body1.operator.v.operator.is_inclusive,
                         [err |-> c.err, v |-> IF c.err = "" THEN c.v.min_max ELSE <<>>])
    /\ (/\ SingleChoice /\ Body1.operator.some
        /\ Body1.operator.v.operator = CtlOp(".size")
        /\ Body1.operator.v.type2.k = "ParenthesizedType")
       => LET inner == Body1.operator.v.type2.pt.type_choices[1].type1
          IN  C5Expected(NumberLiteral(inner.type2), NumberLiteral(inner.operator.v.type2),
                         inner.operator.v.operator.is_inclusive,
                         SizeBaseRange(Body1.operator.v.type2))

\* C6: on parent uint, .size n is Range(0, 2^(8n)-1) and .size (l..h) is
\* Range(2^(8l), 2^(8h)-1); name = uint .size n registers U8, U16, U32, U64 for
\* n = 1, 2, 4, 8 without aborting.
C6Sized ==
    /\ SingleChoice /\ Body1.type2.k = "Typename" /\ Body1.type2.ident = "uint"
    /\ Body1.operator.some /\ Body1.operator.v.operator = CtlOp(".size")
C6Operand == Body1.operator.v.type2
C6_UintSize ==
    /\ (C6Sized /\ C6Operand.k = "UintValue" /\ C6Operand.value[1] <= 9
                /\ C6Operand.value = W(C6Operand.value[1]))
       => LET n == C6Operand.value[1]
              c == SizeControl(Body1.type2, C6Operand)
          IN  /\ c.err = ""
              /\ c.v.min_max[1] = Some(W(0))
              /\ c.v.min_max[2].some
              /\ SExt(c.v.min_max[2].v) = MSub(MPow2(8 * n), M(1))
              /\ n \in {1, 2, 4, 8} =>
                    /\ Returned
                    /\ AliasRegistered(Primitive(CASE n = 1 -> "U8" [] n = 2 -> "U16"
                                                   [] n = 4 -> "U32" [] n = 8 -> "U64"))
    /\ (/\ C6Sized /\ C6Operand.k = "ParenthesizedType"
        /\ C6Operand.pt.type_choices[1].type1.operator.v.operator = RangeOp(TRUE)
        /\ C6Operand.pt.type_choices[1].type1.operator.v.type2.value[1] <= 9)
       => LET l == C6Operand.pt.type_choices[1].type1.type2.value[1]
              h == C6Operand.pt.type_choices[1].type1.operator.v.type2.value[1]
              c == SizeControl(Body1.type2, C6Operand)
          IN  /\ c.err = ""
              /\ c.v.min_max[1].some /\ SExt(c.v.min_max[1].v) = MPow2(8 * l)
              /\ c.v.min_max[2].some /\ SExt(c.v.min_max[2].v) = MSub(MPow2(8 * h), M(1))

\* C7: name = P .size S with P one of bytes, bstr, text, tstr registers
\* Wrapper(name, None, Primitive(Bytes|Str), bounds) with bounds (n, n) for a single
\* integer n and (l, h) for an explicit inclusive range (l..h).
C7Subject ==
    /\ SingleChoice /\ Body1.type2.k = "Typename"
    /\ Body1.type2.ident \in {"bytes", "bstr", "text", "tstr"}
    /\ Body1.operator.some /\ Body1.operator.v.operator = CtlOp(".size")
    /\ \/ Body1.operator.v.type2.k = "UintValue"
       \/ /\ Body1.operator.v.type2.k = "ParenthesizedType"
          /\ Body1.operator.v.type2.pt.type_choices[1].type1.operator.v.operator = RangeOp(TRUE)
C7Bounds ==
    LET s == Body1.operator.v.type2
    IN  IF s.k = "UintValue" THEN <<Some(s.value), Some(s.value)>>
        ELSE <<Some(s.pt.type_choices[1].type1.type2.value),
               Some(s.pt.type_choices[1].type1.operator.v.type2.value)>>
C8Operand(x, y) == IF type2_is_null(x.type2) THEN y ELSE x
C8IsOptional(tcs) ==
    /\ Len(tcs) = 2
    /\ type2_is_null(tcs[1].type1.type2) \/ type2_is_null(tcs[2].type1.type2)
C8Lowered(tcs) == rust_type_from_type1(types, C8Operand(tcs[1].type1, tcs[2].type1))
C8RuleCase(tcs, tag) ==
    C8IsOptional(tcs) =>
        LET l == C8Lowered(tcs)
        IN  IF IsErr(l) THEN ret'.err = l.err /\ types' = l.types
            ELSE /\ ret'.err = ""
                 /\ types' = register_type_alias(l.types, RustIdent(arg'.name),
                                 IF tag.some THEN Tagged(tag.v, Optional(l.v))
                                 ELSE Optional(l.v))
C8FieldCase(entry) ==
    (/\ entry.k = "ValueMemberKey"
     /\ entry.ge.member_key = Some(MemberKeyBareword("a"))
     /\ ~entry.ge.occur.some
     /\ C8IsOptional(entry.ge.entry_type.type_choices)) =>
        LET l == C8Lowered(entry.ge.entry_type.type_choices)
        IN  IF IsErr(l) THEN ret'.err = l.err
            ELSE /\ ret'.err = ""
                 /\ RustIdent(arg'.name) \in DOMAIN types'.rust_structs
                 /\ types'.rust_structs[RustIdent(arg'.name)].record.fields[1].rust_type
                       = Optional(l.v)
C8Step ==
    (arg'.k = "Type" /\ ~arg'.generic_params.some) =>
        LET tcs == arg'.value.type_choices
            t2  == tcs[1].type1.type2
        IN  /\ Len(tcs) = 2 => C8RuleCase(tcs, None)
            /\ (Len(tcs) = 1 /\ t2.k = "TaggedData" /\ t2.tag.some /\ Len(t2.t.type_choices) = 2)
                  => C8RuleCase(t2.t.type_choices, t2.tag)
            /\ (/\ Len(tcs) = 1 /\ t2.k = "Array"
                /\ Len(t2.group.group_choices) = 1
                /\ Len(t2.group.group_choices[1].group_entries) = 1)
                  => C8FieldCase(t2.group.group_choices[1].group_entries[1][1])
C8_OptionalOrderIndependent == [][C8Step]_vars
C8_Witness ==
    /\ IsTypeRule
    /\ arg.value = Type(<<Type1(Typename("null")), Type1(Typename("int"))>>)
    /\ AliasRegistered(Optional(Primitive("I64")))

\* C9: no type of the catalog is a Tagged whose inner type, directly or through
\* intervening Optional wrappers, is itself a Tagged.
RECURSIVE StripOptional(_)
StripOptional(ty) == IF ty.t = "Optional" THEN StripOptional(ty.ty) ELSE ty
RECURSIVE TagInTag(_)
TagInTag(ty) ==
    CASE ty.t = "Tagged" -> StripOptional(ty.ty).t = "Tagged" \/ TagInTag(ty.ty)
      [] ty.t \in {"Optional", "Array", "CBORBytes", "Alias"} -> TagInTag(ty.ty)
      [] ty.t = "Map" -> TagInTag(ty.key) \/ TagInTag(ty.value)
      [] OTHER -> FALSE
StructTypes(st) ==
    CASE st.variant = "Record" -> {st.record.fields[i].rust_type : i \in 1..Len(st.record.fields)}
      [] st.variant = "Table" -> {st.domain, st.range}
      [] st.variant = "Wrapper" -> {st.wrapped}
      [] OTHER -> {st.variants[i].rust_type : i \in 1..Len(st.variants)}
C9_NoNestedTags ==
    /\ \A a \in DOMAIN types.type_aliases : ~TagInTag(types.type_aliases[a])
    /\ \A n \in DOMAIN types.rust_structs :
          \A ty \in StructTypes(types.rust_structs[n]) : ~TagInTag(ty)
    /\ \A n \in DOMAIN types.generic_defs :
          \A ty \in StructTypes(types.generic_defs[n].orig) : ~TagInTag(ty)
    /\ \A n \in DOMAIN types.generic_instances :
          \A i \in 1..Len(types.generic_instances[n].generic_args) :
              ~TagInTag(types.generic_instances[n].generic_args[i])

\* C10: a rule name = #6.a(#6.b(T)) aborts the pass and registers nothing for name.
C10Subject == TaggedSingle /\ TaggedInner1.type2.k = "TaggedData" /\ ~TaggedInner1.operator.some
\* as claimed: the abort is the 'doubly nested tags are not supported' failure
C10_DoublyNestedFailure ==
    C10Subject => (ret.err = "doubly nested tags are not supported" /\ NothingRegistered)
\* C10, amended: the abort is the failure raised for a tagged type that is neither a
\* typename nor a map nor an array, and nothing is registered for name.
C10_NestedTagAborts ==
    C10Subject => (ret.err = "only supports tagged arrays/maps/typenames" /\ NothingRegistered)
C10_Witness ==
    /\ C10Subject
    /\ Body1.type2.tag.v = 1
    /\ TaggedInner1.type2.tag = Some(2)
    /\ ~Returned

\* C11: a CBORBytes node is produced only by .cbor on a parent typename bytes or bstr;
\* a rule with .cbor on any other parent (at rule position, under a tag or inside a
\* type expression) aborts the pass.
RECURSIVE CborParentsT1(_)
CborParentsT(t) == UNION {CborParentsT1(t.type_choices[i].type1) : i \in 1..Len(t.type_choices)}
CborParentsEntry(e) ==
    IF e.k # "ValueMemberKey" THEN {}
    ELSE CborParentsT(e.ge.entry_type)
         \cup (IF e.ge.member_key.some /\ e.ge.member_key.v.k = "Type1"
               THEN CborParentsT1(e.ge.member_key.v.t1) ELSE {})
CborParentsGroup(g) ==
    UNION {UNION {CborParentsEntry(g.group_choices[i].group_entries[j][1]) :
                     j \in 1..Len(g.group_choices[i].group_entries)} :
              i \in 1..Len(g.group_choices)}
CborParentsT1(t1) ==
    (IF t1.operator.some /\ t1.operator.v.operator = CtlOp(".cbor")
     THEN {IF t1.type2.k = "Typename" THEN t1.type2.ident ELSE "(not a typename)"} ELSE {})
    \cup (CASE t1.type2.k \in {"Array", "Map"} -> CborParentsGroup(t1.type2.group)
            [] t1.type2.k = "TaggedData" -> CborParentsT(t1.type2.t)
            [] t1.type2.k = "Typename" /\ t1.type2.generic_args.some ->
                  UNION {CborParentsT1(t1.type2.generic_args.v[i]) :
                            i \in 1..Len(t1.type2.generic_args.v)}
            [] OTHER -> {})
RECURSIVE HasCborBytes(_)
HasCborBytes(ty) ==
    CASE ty.t = "CBORBytes" -> TRUE
      [] ty.t \in {"Tagged", "Optional", "Array", "Alias"} -> HasCborBytes(ty.ty)
      [] ty.t = "Map" -> HasCborBytes(ty.key) \/ HasCborBytes(ty.value)
      [] OTHER -> FALSE
CatalogHasCborBytes ==
    \/ \E a \in DOMAIN types.type_aliases : HasCborBytes(types.type_aliases[a])
    \/ \E n \in DOMAIN types.rust_structs :
          \E ty \in StructTypes(types.rust_structs[n]) : HasCborBytes(ty)
    \/ \E n \in DOMAIN types.generic_defs :
          \E ty \in StructTypes(types.generic_defs[n].orig) : HasCborBytes(ty)
    \/ \E n \in DOMAIN types.generic_instances :
          \E i \in 1..Len(types.generic_instances[n].generic_args) :
              HasCborBytes(types.generic_instances[n].generic_args[i])
C11_CborOnlyOnBytes ==
    arg.k = "Type" =>
        /\ (CborParentsT(arg.value) \ {"bytes", "bstr"} # {}) => ~Returned
        /\ CatalogHasCborBytes => CborParentsT(arg.value) \cap {"bytes", "bstr"} # {}

\* C12: when a rule c = a names a user-defined alias a registered by an earlier rule,
\* c is registered as a type alias, its target is not an Alias(a, _) wrapper, and the
\* alias-chased form of c equals the alias-chased form of a, whatever the length of
\* the chain behind a.
C12Subject ==
    /\ SingleChoice
    /\ Body1.type2.k = "Typename"
    /\ Body1 = Type1(Typename(Body1.type2.ident))
    /\ is_identifier_user_defined(Body1.type2.ident)
    /\ Body1.type2.ident # arg.name
    /\ \E i \in 1..Len(types.log) :
          types.log[i] = [kind |-> "alias", ident |-> RustIdent(Body1.type2.ident)]
C12_AliasIdempotence ==
    C12Subject =>
        /\ Returned
        /\ HasAlias
        /\ types.type_aliases[RuleIdent].t # "Alias"
        /\ apply_type_aliases(types, RuleIdent)
               = apply_type_aliases(types, RustIdent(Body1.type2.ident))
\* a chain of three rules: foo = uint, bar = foo, baz = bar
C12_Witness ==
    /\ C12Subject
    /\ arg.name = "baz"
    /\ Body1.type2.ident = "bar"
    /\ types.log = <<[kind |-> "alias", ident |-> "Foo"], [kind |-> "alias", ident |-> "Bar"],
                     [kind |-> "alias", ident |-> "Baz"]>>
    /\ types.type_aliases["Bar"] = Primitive("U64")
    /\ AliasRegistered(Primitive("U64"))

\* C13: in a record, the i-th entry (i >= 2) whose synthesized field name equals that
\* of earlier entries is named with the suffix i, the first keeps the bare name, and
\* the counters start afresh for each record.
C13Entries == Body1.type2.group.group_choices[1].group_entries
C13Subject ==
    /\ SingleChoice
    /\ Body1.type2.k \in {"Array", "Map"}
    /\ Len(Body1.type2.group.group_choices) = 1
    /\ Returned
    /\ HasStruct
    /\ types.rust_structs[RuleIdent].variant = "Record"
\* the synthesized name of the j-th entry, before deduplication
C13Base(j) == group_entry_to_field_name(C13Entries[j][1], j - 1, NoEntries, C13Entries[j][2]).v
C13Expected(j) ==
    LET c == Cardinality({i \in 1..j : C13Base(i) = C13Base(j)})
    IN  IF c = 1 THEN C13Base(j) ELSE C13Base(j) \o ToString(c)
C13_FieldNameDedup ==
    C13Subject =>
        LET fields == types.rust_structs[RuleIdent].record.fields
        IN  /\ Len(fields) = Len(C13Entries)
            /\ \A j \in 1..Len(fields) : fields[j].name = C13Expected(j)
\* bar = [a: int, a: int, a: int] after foo = [x: int, y: int]
C13_Witness ==
    /\ C13Subject
    /\ arg.name = "bar"
    /\ "Foo" \in DOMAIN types.rust_structs
    /\ types.rust_structs["Foo"].variant = "Record"
    /\ Len(C13Entries) = 3
    /\ \A j \in 1..3 : C13Base(j) = "a"
    /\ [j \in 1..3 |-> types.rust_structs[RuleIdent].record.fields[j].name] = <<"a", "a2", "a3">>

\* C14: a rule name = #6.n(bytes .cbor X) whose operand X is registered nowhere in the
\* catalog aborts with the 'please move definition' failure and registers nothing
\* for name.
C14Operand == TaggedInner1.operator.v.type2
C14Subject ==
    /\ TaggedSingle
    /\ TaggedInner1.type2.k = "Typename"
    /\ TaggedInner1.type2.ident \in {"bytes", "bstr"}
    /\ TaggedInner1.operator.some
    /\ TaggedInner1.operator.v.operator = CtlOp(".cbor")
    /\ C14Operand.k = "Typename"
    /\ is_identifier_user_defined(C14Operand.ident)
    /\ C14Operand.ident # arg.name
    /\ RustIdent(C14Operand.ident) \notin DOMAIN types.type_aliases
    /\ \A i \in 1..Len(types.log) : types.log[i].ident # RustIdent(C14Operand.ident)
C14_TaggedControlForcesResolution ==
    C14Subject => (ret.err = "Please move definition" /\ NothingRegistered)

\* C15: the evaluator yields the mathematically exact bounds or aborts: for the
\* comparison operators on a literal N (N, N+1, N-1 of the literal as written), for a
\* literal range (the start and the end, the end plus one when exclusive), and for
\* .size n on uint (0 and 2^(8n) - 1).
C15BoundIs(b, m) == IF m.some THEN b.some /\ SExt(b.v) = m.v ELSE ~b.some
C15ExactOrFatal(r, lo, hi) ==
    \/ r.err # ""
    \/ C15BoundIs(r.v.min_max[1], lo) /\ C15BoundIs(r.v.min_max[2], hi)
C15CompareBounds(ctrl, lb, n) ==
    CASE ctrl = ".eq" -> <<Some(n), Some(n)>>
      [] ctrl = ".ne" -> <<Some(MAdd(n, M(1))), Some(MSub(n, M(1)))>>
      [] ctrl = ".le" -> <<lb, Some(n)>>
      [] ctrl = ".lt" -> <<lb, Some(MSub(n, M(1)))>>
      [] ctrl = ".ge" -> <<Some(n), None>>
      [] ctrl = ".gt" -> <<Some(MAdd(n, M(1))), None>>
C15Op == Body1.operator.v
C15_ExactOrFatal ==
    /\ (/\ SingleChoice /\ Body1.operator.some /\ C15Op.operator.k = "CtlOp"
        /\ C15Op.operator.ctrl \in CompareOps /\ IsNumberLiteral(C15Op.type2))
       => LET lb == IF Body1.type2.k = "Typename" /\ Body1.type2.ident = "uint"
                    THEN Some(W(0)) ELSE None
              e == C15CompareBounds(C15Op.operator.ctrl,
                                    IF lb.some THEN Some(M(0)) ELSE None, MathLit(C15Op.type2))
          IN  C15ExactOrFatal(CompareControl(C15Op.operator.ctrl, lb, C15Op.type2), e[1], e[2])
    /\ (/\ SingleChoice /\ Body1.operator.some /\ C15Op.operator.k = "RangeOp"
        /\ IsNumberLiteral(Body1.type2) /\ IsNumberLiteral(C15Op.type2))
       => C15ExactOrFatal(RangeControl(Body1.type2, C15Op),
                          Some(MathLit(Body1.type2)),
                          Some(IF C15Op.operator.is_inclusive THEN MathLit(C15Op.type2)
                               ELSE MAdd(MathLit(C15Op.type2), M(1))))
    /\ (C6Sized /\ C6Operand.k = "UintValue" /\ C6Operand.value[1] <= 9
                /\ C6Operand.value = W(C6Operand.value[1]))
       => C15ExactOrFatal(SizeControl(Body1.type2, C6Operand),
                          Some(M(0)), Some(MSub(MPow2(8 * C6Operand.value[1]), M(1))))

\* C16: on a literal N the comparison operators evaluate to .eq (N, N), .ne (N+1, N-1),
\* .le (lower_default, N), .lt (lower_default, N-1), .ge (N, None), .gt (N+1, None), with
\* lower_default 0 on parent uint and undefined otherwise, and the rule registers that
\* range as it is (as the bounds of a Wrapper, or as the primitive it fits exactly).
C16Subject ==
    /\ SingleChoice /\ Body1.type2.k = "Typename"
    /\ Body1.type2.ident \in {"uint", "int", "bytes", "bstr", "text", "tstr"}
    /\ Body1.operator.some /\ C15Op.operator.k = "CtlOp"
    /\ C15Op.operator.ctrl \in CompareOps /\ IsNumberLiteral(C15Op.type2)
    /\ MathLit(C15Op.type2) = SExt(NumberLiteral(C15Op.type2))
    /\ FitsIsize(MAdd(MathLit(C15Op.type2), M(1)))
    /\ FitsIsize(MSub(MathLit(C15Op.type2), M(1)))
C16LowerDefault == IF Body1.type2.ident = "uint" THEN Some(W(0)) ELSE None
C16Evaluated == CompareControl(C15Op.operator.ctrl, C16LowerDefault, C15Op.type2)
C16Expected ==
    C15CompareBounds(C15Op.operator.ctrl,
                     IF Body1.type2.ident = "uint" THEN Some(M(0)) ELSE None,
                     MathLit(C15Op.type2))
C16EvaluatesAsClaimed ==
    /\ C16Evaluated.err = ""
    /\ C15BoundIs(C16Evaluated.v.min_max[1], C16Expected[1])
    /\ C15BoundIs(C16Evaluated.v.min_max[2], C16Expected[2])
C16Propagated ==
    /\ Returned
    /\ \/ /\ HasStruct
          /\ types.rust_structs[RuleIdent].variant = "Wrapper"
          /\ types.rust_structs[RuleIdent].min_max = Some(C16Evaluated.v.min_max)
       \/ /\ Body1.type2.ident \in {"uint", "int"}
          /\ range_to_primitive(C16Evaluated.v.min_max[1], C16Evaluated.v.min_max[2]).some
          /\ AliasRegistered(range_to_primitive(C16Evaluated.v.min_max[1],
                                                C16Evaluated.v.min_max[2]).v)
C16_ComparisonRanges == C16Subject => (C16EvaluatesAsClaimed /\ C16Propagated)

\* C17: within one pass no identifier is registered in the catalog more than once.
C17_NoDoubleRegistration ==
    \A i \in 1..Len(types.log) : \A j \in 1..Len(types.log) :
        i # j => types.log[i].ident # types.log[j].ident

\* C18: a record built from a map group gives every field the key derived from its
\* member key (bareword: the text of the identifier; literal value: the matching fixed
\* value; Type1 wrapping a uint, int or text literal: that literal), a map entry
\* without member key aborts the pass, and every field of an array record has no key.
C18Group ==
    /\ SingleChoice
    /\ ~Body1.operator.some
    /\ Body1.type2.k \in {"Array", "Map"}
    /\ Len(Body1.type2.group.group_choices) = 1
C18Keyed(e) ==
    /\ e.k = "ValueMemberKey"
    /\ e.ge.member_key.some
    /\ \/ e.ge.member_key.v.k = "Bareword"
       \/ e.ge.member_key.v.k = "Value" /\ e.ge.member_key.v.value.k \in {"UINT", "INT", "TEXT"}
       \/ /\ e.ge.member_key.v.k = "Type1"
          /\ e.ge.member_key.v.t1.type2.k \in {"UintValue", "IntValue", "TextValue"}
C18Key(e) ==
    LET mk == e.ge.member_key.v
    IN  CASE mk.k = "Bareword" -> FixedText(mk.ident)
          [] mk.k = "Value" /\ mk.value.k = "UINT" -> FixedUint(mk.value.n)
          [] mk.k = "Value" /\ mk.value.k = "INT" -> FixedInt(mk.value.n)
          [] mk.k = "Value" /\ mk.value.k = "TEXT" -> FixedText(mk.value.s)
          [] mk.k = "Type1" /\ mk.t1.type2.k = "UintValue" -> FixedUint(mk.t1.type2.value)
          [] mk.k = "Type1" /\ mk.t1.type2.k = "IntValue" -> FixedInt(mk.t1.type2.value)
          [] mk.k = "Type1" /\ mk.t1.type2.k = "TextValue" -> FixedText(mk.t1.type2.text)
C18PlainlyTyped(e) == e.k = "ValueMemberKey" /\ e.ge.entry_type \in {TInt, TText}
C18Fields == types.rust_structs[RuleIdent].record.fields
C18IsRecord == Returned /\ HasStruct /\ types.rust_structs[RuleIdent].variant = "Record"
C18_RecordKeys ==
    C18Group =>
        \* a map group of several keyed entries becomes a record with the derived keys
        /\ (/\ Body1.type2.k = "Map" /\ Len(C13Entries) >= 2
            /\ \A j \in 1..Len(C13Entries) :
                  C18Keyed(C13Entries[j][1]) /\ C18PlainlyTyped(C13Entries[j][1]))
           => /\ C18IsRecord
              /\ Len(C18Fields) = Len(C13Entries)
              /\ \A j \in 1..Len(C13Entries) : C18Fields[j].key = Some(C18Key(C13Entries[j][1]))
        \* whatever map record is built carries the derived keys
        /\ (Body1.type2.k = "Map" /\ C18IsRecord)
           => \A j \in 1..Len(C18Fields) :
                 C18Keyed(C13Entries[j][1]) /\ C18Fields[j].key = Some(C18Key(C13Entries[j][1]))
        \* a map entry without member key aborts
        /\ (/\ Body1.type2.k = "Map" /\ Len(C13Entries) >= 2
            /\ \E j \in 1..Len(C13Entries) :
                  C13Entries[j][1].k = "ValueMemberKey" /\ ~C13Entries[j][1].ge.member_key.some)
           => ~Returned
        \* array records have no keys
        /\ (Body1.type2.k = "Array" /\ C18IsRecord)
           => \A j \in 1..Len(C18Fields) : C18Fields[j].key = None

\* C20: a rule on int or uint that carries a range, tagged or not, is registered as an
\* alias to the primitive the range fits exactly, and otherwise as a Wrapper with the
\* range as its bounds; the pass does not abort and the rule is not dropped.
C20Ranged(t1) ==
    /\ t1.type2.k = "Typename"
    /\ t1.type2.ident \in {"int", "uint"}
    /\ t1.operator.some
    /\ ~IsErr(parse_control_operator(types, Type2AndParent(t1.type2, t1), t1.operator.v))
    /\ parse_control_operator(types, Type2AndParent(t1.type2, t1), t1.operator.v).v.c = "Range"
C20Range(t1) == parse_control_operator(types, Type2AndParent(t1.type2, t1), t1.operator.v).v.min_max
C20Registered(t1) ==
    /\ Returned
    /\ IF range_to_primitive(C20Range(t1)[1], C20Range(t1)[2]).some
       THEN AliasRegistered(range_to_primitive(C20Range(t1)[1], C20Range(t1)[2]).v)
       ELSE /\ HasStruct
            /\ types.rust_structs[RuleIdent].variant = "Wrapper"
            /\ types.rust_structs[RuleIdent].min_max = Some(C20Range(t1))
C20_RangedIntRule ==
    /\ (SingleChoice /\ C20Ranged(Body1)) => C20Registered(Body1)
    /\ (TaggedSingle /\ C20Ranged(TaggedInner1)) => C20Registered(TaggedInner1)

\* C19: a rule whose array or map group has k >= 2 group choices registers, last, one
\* GroupChoice struct under the rule name with k variants in source order: a one-entry
\* choice gives a variant of the entry's lowered type, embedded iff that type is a named
\* plain group; a choice of several entries is named by @name or by the rule name and
\* its index, is marked a plain group, is registered as a record before the outer
\* struct and gives the embedded variant Rust(name).  With generic parameters the rule
\* aborts and the catalog is left as it was.
C19Subject ==
    /\ arg.k = "Type"
    /\ Len(arg.value.type_choices) = 1
    /\ ~Body1.operator.some
    /\ Body1.type2.k \in {"Array", "Map"}
    /\ Len(Body1.type2.group.group_choices) >= 2
C19Choices == Body1.type2.group.group_choices
C19Struct == types.rust_structs[RuleIdent]
C19VariantName(i) ==
    RustIdent(IF RuleMetadataFrom(C19Choices[i].comments_before_grpchoice).name.some
              THEN RuleMetadataFrom(C19Choices[i].comments_before_grpchoice).name.v
              ELSE RuleIdent \o ToString(i - 1))
C19Wraps(i, variant) ==
    LET ty == group_entry_to_type(types, C19Choices[i].group_entries[1][1])
    IN  /\ ~IsErr(ty)
        /\ variant.rust_type = ty.v
        /\ variant.serialize_as_embedded_group
              = (ty.v.t = "Rust" /\ is_plain_group(types, ty.v.ident))
C19Inlines(i, variant) ==
    /\ variant = EnumVariant(VariantRust(C19VariantName(i)), Rust(C19VariantName(i)), TRUE)
    /\ is_plain_group(types, C19VariantName(i))
    /\ \E j \in 1..(Len(types.log) - 1) :
          types.log[j] = [kind |-> "struct", ident |-> C19VariantName(i)]
    /\ C19VariantName(i) # RuleIdent
          => /\ C19VariantName(i) \in DOMAIN types.rust_structs
             /\ types.rust_structs[C19VariantName(i)].variant = "Record"
             /\ Len(types.rust_structs[C19VariantName(i)].record.fields)
                   = Len(C19Choices[i].group_entries)
C19Built ==
    /\ HasStruct
    /\ C19Struct.variant = "GroupChoice"
    /\ C19Struct.rep = Body1.type2.k
    /\ types.log[Len(types.log)] = [kind |-> "struct", ident |-> RuleIdent]
    /\ Len(C19Struct.variants) = Len(C19Choices)
    /\ \A i \in 1..Len(C19Choices) :
          IF Len(C19Choices[i].group_entries) = 1
          THEN C19Wraps(i, C19Struct.variants[i])
          ELSE C19Inlines(i, C19Struct.variants[i])
C19Step ==
    C19Subject'
        => IF arg'.generic_params.some
           THEN ret'.err # "" /\ types' = types
           ELSE Returned' => C19Built'
C19_GroupChoices == [][C19Step]_vars
C19_Witness ==
    /\ C19Subject /\ Returned /\ ~arg.generic_params.some
    /\ Len(C19Choices) = 3
    /\ Len(C19Choices[1].group_entries) = 2
    /\ C19Struct.variants[2] = EnumVariant(VariantCustom("Pair"), Rust("Pair"), TRUE)
    /\ C19Struct.variants[3].serialize_as_embedded_group = FALSE

\* C21: before deduplication the field name of a record entry is: snake_case(id) for a
\* bareword key; for a literal value key the @name of the trailing comments, else
\* key_<v>; key_<n> for a Type1 key that is the uint literal n; without member key the
\* name derived from the type (named type: its identifier, text literal: its text,
\* array of one T: <T>s, T / null or null / T: the name of T), else the @name comment,
\* else index_<position>, the position counted from 0.
RECURSIVE C21Derived(_)
C21Derived(t) ==
    LET of2(t2) ==
            CASE t2.k = "Typename" -> Some(t2.ident)
              [] t2.k = "TextValue" -> Some(t2.text)
              [] t2.k = "Array" /\ Len(t2.group.group_choices) = 1
                                /\ Len(t2.group.group_choices[1].group_entries) = 1 ->
                    LET e == t2.group.group_choices[1].group_entries[1][1]
                        inner == CASE e.k = "ValueMemberKey" -> C21Derived(e.ge.entry_type)
                                   [] e.k = "TypeGroupname" -> Some(e.ge.name)
                                   [] OTHER -> None
                    IN  IF inner.some THEN Some(inner.v \o "s") ELSE None
              [] OTHER -> None
        cs == t.type_choices
    IN  CASE Len(cs) = 1 -> of2(cs[1].type1.type2)
          [] Len(cs) = 2 /\ type2_is_null(cs[1].type1.type2) -> of2(cs[2].type1.type2)
          [] Len(cs) = 2 /\ type2_is_null(cs[2].type1.type2) -> of2(cs[1].type1.type2)
          [] OTHER -> None
C21Named(e) == RuleMetadataFrom(e.trailing_comments).name
C21Fallback(e, j) == IF C21Named(e).some THEN C21Named(e).v ELSE "index_" \o ToString(j - 1)
\* entries the resolution order names
C21Nameable(e) ==
    \/ e.k = "TypeGroupname"
    \/ /\ e.k = "ValueMemberKey"
       /\ e.ge.member_key.some
            => \/ e.ge.member_key.v.k \in {"Bareword", "Value"}
               \/ e.ge.member_key.v.k = "Type1" /\ e.ge.member_key.v.t1.type2.k = "UintValue"
C21Claimed(e, j) ==
    CASE e.k = "TypeGroupname" ->
            IF C21Derived(Ty(e.ge.name)).some THEN C21Derived(Ty(e.ge.name)).v
            ELSE C21Fallback(e, j)
      [] e.k = "ValueMemberKey" /\ ~e.ge.member_key.some ->
            IF C21Derived(e.ge.entry_type).some THEN C21Derived(e.ge.entry_type).v
            ELSE C21Fallback(e, j)
      [] e.k = "ValueMemberKey" /\ e.ge.member_key.v.k = "Bareword" ->
            convert_to_snake_case(e.ge.member_key.v.ident)
      [] e.k = "ValueMemberKey" /\ e.ge.member_key.v.k = "Value" ->
            IF C21Named(e).some THEN C21Named(e).v ELSE "key_" \o FmtToken(e.ge.member_key.v.value)
      [] e.k = "ValueMemberKey" /\ e.ge.member_key.v.k = "Type1" ->
            "key_" \o FmtWord(e.ge.member_key.v.t1.type2.value)
\* the same order with the bare reference to a built-in type named by comment or index
C21Amended(e, j) ==
    IF e.k = "TypeGroupname" /\ ~is_identifier_user_defined(e.ge.name)
    THEN C21Fallback(e, j)
    ELSE C21Claimed(e, j)
C21Fields == types.rust_structs[RuleIdent].record.fields
C21Suffixed(names, j) ==
    LET c == Cardinality({i \in 1..j : names[i] = names[j]})
    IN  IF c = 1 THEN names[j] ELSE names[j] \o ToString(c)
C21Subject == C13Subject /\ \A j \in 1..Len(C13Entries) : C21Nameable(C13Entries[j][1])
C21_FieldNameOrder ==
    C21Subject =>
        LET names == [j \in 1..Len(C13Entries) |-> C21Claimed(C13Entries[j][1], j)]
        IN  /\ Len(C21Fields) = Len(C13Entries)
            /\ \A j \in 1..Len(C13Entries) : C21Fields[j].name = C21Suffixed(names, j)
\* C21, amended: as above, except that an entry that is a bare reference to a built-in
\* type name takes the @name comment, else index_<position>, and never the type's name.
C21_FieldNameOrderBuiltin ==
    C21Subject =>
        LET names == [j \in 1..Len(C13Entries) |-> C21Amended(C13Entries[j][1], j)]
        IN  /\ Len(C21Fields) = Len(C13Entries)
            /\ \A j \in 1..Len(C13Entries) : C21Fields[j].name = C21Suffixed(names, j)
\* bar = ["hello", [int], null / text, 1]
C21_Witness ==
    /\ C21Subject
    /\ Len(C13Entries) = 4
    /\ \A j \in 1..4 : C13Entries[j][1].k = "ValueMemberKey" /\ ~C13Entries[j][1].ge.member_key.some
    /\ [j \in 1..4 |-> C21Fields[j].name] = <<"hello", "ints", "text", "index_3">>

\* C22: whenever a rule name = #6.n(inner) returns, the entry registered for name
\* carries the tag n: as Tagged(n, _) in an alias, or as the tag of the struct.
C22Subject ==
    /\ SingleChoice
    /\ ~Body1.operator.some
    /\ Body1.type2.k = "TaggedData"
    /\ Body1.type2.tag.some
    /\ Returned
C22Tag == Body1.type2.tag.v
C22_TagPreserved ==
    C22Subject =>
        \/ /\ HasAlias
           /\ types.type_aliases[RuleIdent].t = "Tagged"
           /\ types.type_aliases[RuleIdent].tag = C22Tag
        \/ /\ HasStruct
           /\ types.rust_structs[RuleIdent].tag = Some(C22Tag)

\* C23: within every registered record the field names are pairwise distinct.
C23_FieldNamesDistinct ==
    \A id \in DOMAIN types.rust_structs :
        types.rust_structs[id].variant = "Record"
            => \A i, j \in 1..Len(types.rust_structs[id].record.fields) :
                  i # j => types.rust_structs[id].record.fields[i].name
                              # types.rust_structs[id].record.fields[j].name

\* C24: a call of parse_rule on a type rule that returns makes exactly one registration
\* under the rule's own name, its last one, in the table of the kind registered (alias,
\* struct, generic definition or generic instance), whatever it registers for anonymous
\* constructs before; on a group rule with an inline group it leaves the catalog as it
\* was.
C24New == SubSeq(types'.log, Len(types.log) + 1, Len(types'.log))
C24Table(tys, kind) ==
    CASE kind = "alias" -> DOMAIN tys.type_aliases
      [] kind = "struct" -> DOMAIN tys.rust_structs
      [] kind = "generic_def" -> DOMAIN tys.generic_defs
      [] kind = "generic_instance" -> DOMAIN tys.generic_instances
C24Step ==
    /\ (arg'.k = "Type" /\ ret'.err = "")
       => /\ Len(types'.log) > Len(types.log)
          /\ SubSeq(types'.log, 1, Len(types.log)) = types.log
          /\ C24New[Len(C24New)].ident = RustIdent(arg'.name)
          /\ C24New[Len(C24New)].kind \in {"alias", "struct", "generic_def", "generic_instance"}
          /\ RustIdent(arg'.name) \in C24Table(types', C24New[Len(C24New)].kind)
          /\ Cardinality({i \in 1..Len(C24New) : C24New[i].ident = RustIdent(arg'.name)}) = 1
    /\ (arg'.k = "Group" /\ ret'.err = "" /\ arg'.entry.k = "InlineGroup") => types' = types
RECURSIVE SizeType(_), SizeType1(_), SizeType2(_), SizeGroup(_), SizeChoice(_), SizeEntry(_), SumSizes(_, _)
\* the number of syntax nodes of a type, one of its alternatives counting as a node
SumSizes(kind, nodes) ==
    IF nodes = <<>> THEN 0
    ELSE (CASE kind = "type_choice" -> 1 + SizeType1(Head(nodes).type1)
            [] kind = "type1" -> SizeType1(Head(nodes))
            [] kind = "group_choice" -> SizeChoice(Head(nodes))
            [] kind = "entry" -> SizeEntry(Head(nodes)[1]))
         + SumSizes(kind, Tail(nodes))
SizeType(t) == 1 + SumSizes("type_choice", t.type_choices)
SizeType1(type1) ==
    1 + SizeType2(type1.type2)
      + (IF type1.operator.some THEN 1 + SizeType2(type1.operator.v.type2) ELSE 0)
SizeType2(t2) ==
    CASE t2.k = "Typename" ->
            1 + (IF t2.generic_args.some THEN SumSizes("type1", t2.generic_args.v) ELSE 0)
      [] t2.k \in {"Map", "Array"} -> 1 + SizeGroup(t2.group)
      [] t2.k = "TaggedData" -> 1 + SizeType(t2.t)
      [] OTHER -> 1
SizeGroup(group) == 1 + SumSizes("group_choice", group.group_choices)
SizeChoice(group_choice) == 1 + SumSizes("entry", group_choice.group_entries)
SizeEntry(entry) ==
    IF entry.k = "ValueMemberKey"
    THEN 1 + SizeType(entry.ge.entry_type)
           + (IF entry.ge.member_key.some /\ entry.ge.member_key.v.k = "Type1"
              THEN SizeType1(entry.ge.member_key.v.t1) ELSE 0)
    ELSE 1
\* the size of the node a call is made on
C25Size(frame) ==
    CASE frame.fn = "parse_rule" ->
            IF frame.node.k = "Type" THEN 2 + SizeType(frame.node.value) ELSE 1
      [] frame.fn = "parse_type" -> 1 + SizeType1(frame.node.type1)
      [] frame.fn = "parse_type_choices" -> SumSizes("type_choice", frame.node)
      [] frame.fn = "parse_control_operator" -> 1 + SizeType2(frame.node.type2)
      [] frame.fn = "rust_type_from_type1" -> SizeType1(frame.node)
      [] frame.fn = "rust_type_from_type2" -> SizeType2(frame.node)
      [] frame.fn = "rust_type" -> SizeType(frame.node)
      [] frame.fn = "parse_group" -> SizeGroup(frame.node)
      [] frame.fn = "parse_group_choice" -> SizeChoice(frame.node)
\* a step in which a call makes its own calls: each of them is on a smaller node
C25Descends ==
    (calls # <<>> /\ calls' # <<>>)
        => /\ Len(calls') >= Len(calls) - 1
           /\ SubSeq(calls', Len(calls') - Len(calls) + 2, Len(calls')) = Tail(calls)
           /\ \A i \in 1..(Len(calls') - Len(calls) + 1) : C25Size(calls'[i]) < C25Size(Head(calls))
C25Over == calls = <<>> /\ (nrules = MaxRules \/ ret.err # "")
====
